---- MODULE Spec2Model ----
(***************************************************************************)
(* Forward-error-correction core of HackRF_Scripts: the BCH decoder        *)
(* (bch.py), the Reed-Solomon codecs (reedsolo.py, reedsolo6.py), their    *)
(* fixed-frame wrappers (rs.py, rs6.py) and the burst record parser        *)
(* (bitsparser.py).                                                        *)
(*                                                                         *)
(* Python values are modelled as follows.                                  *)
(*   - an int is an integer; a bit-string ("0101") is a sequence of 0/1    *)
(*     characters, most significant first;                                 *)
(*   - None in a syndrome table is the pair None == <<0, 0>> (no real      *)
(*     entry has weight 0);                                                *)
(*   - a bytearray or list of symbols is a record of its type (kind) and   *)
(*     the sequence of its symbols (val);                                  *)
(*   - a raised exception is the value of the field exc of a result, and   *)
(*     "none" there means that the call returned;                          *)
(*   - a numpy array of uint8 is the sequence of its elements, a text the  *)
(*     sequence of its characters, and a float its kind ("num", "inf",     *)
(*     "nan") with its value in millionths.                                *)
(***************************************************************************)
EXTENDS Integers, Sequences, FiniteSets, TLC

VARIABLES
    syndromes,   \* bch.syndromes: poly -> table (bch.py:7)
    mkexc,       \* exception raised by the last mk_syn call, "none" if it returned
    mkargs,      \* arguments of the mk_syn calls made after import, in order
    cfg,         \* BCH configuration in use: <<poly, bits, synbits, errors>>, or NoCfg
    cw,          \* the valid codeword that was sent (bit-string)
    word,        \* the received bit-string handed to repair
    flips,       \* set of bit positions in which word differs from cw (bit 0 is last)
    res,         \* result of repair(poly, word): <<n, bit-string>>, or NoRes
    gf,          \* globals of reedsolo: GF_EXP, GF_LOG, FIELD_SIZE (reedsolo.py:20-22)
    gf6,         \* globals of reedsolo6: GF_EXP, GF_LOG, FIELD_SIZE (reedsolo6.py:24-26)
    codec,       \* nsym of the reedsolo.RSCodec made last, -1 if none was made
    codec6,      \* <<nsym, generator>> of the reedsolo6.RSCodec made last, <<-1, 0>> if none
    imported,    \* the exception that import rs and import rs6 raised, "" before the import
    setups,      \* number of imports, constructions and table initialisations so far
    frame,       \* the byte sequence handed to the call in progress, as the caller made it
    clean,       \* the frame as it was sent, before corruption; <<>> if none was sent
    arg,         \* the caller's frame object as the call left it
    out,         \* the returned call: op, exception, returned flag, message and parity
    build,       \* where init() of bch.py stands: the mk_syn call and its loop counters
    bsin,        \* the array a caller of a bitsparser helper started with
    bsarr,       \* the array the caller holds now
    bsop,        \* the helper calls made so far, in order
    bsret,       \* what each of these calls returned or raised
    infile,      \* the lines of the file handed to the parser of bitsparser
    parsed,      \* what the parser returned, reported or raised
    gfinit,      \* the call that built the field tables: module, arguments, exception
    gfcall,      \* the call of a field function made on the tables, and its result
    p1,          \* fec.p1: the taps of the first output bit (fec.py:22)
    p2,          \* fec.p2: the taps of the second output bit (fec.py:23)
    initbb,      \* fec.initbb: the initial register (fec.py:34)
    fcalls,      \* the calls of set_poly, set_initbb and fec made so far, in order
    hcall        \* the call of a function without state, and its result

bchvars == <<syndromes, mkexc, mkargs, cfg, cw, word, flips, res>>
rsvars == <<gf, gf6, codec, codec6, imported, setups, frame, clean, arg, out>>
impvars == <<build>>
bitsvars == <<bsin, bsarr, bsop, bsret>>
parsevars == <<infile, parsed>>
fieldvars == <<gfinit, gfcall>>
fecvars == <<p1, p2, initbb, fcalls>>
helpvars == <<hcall>>
extvars == <<impvars, bitsvars, parsevars, fieldvars, fecvars, helpvars>>
vars == <<bchvars, rsvars, extvars>>

----------------------------------------------------------------------------
(* Bounds of the model *)

\* the codewords sent are those of the messages 1..(1 + MaxQ)
MaxQ == 0
\* three bit errors fall within MaxSpan + 1 consecutive positions
MaxSpan == 3
\* mk_syn is called after import with poly in 1..MaxPoly
MaxPoly == 7
\* ... with bits in 1..MaxBits
MaxBits == 4
\* ... with synbits in 0..MaxSynbits
MaxSynbits == 3
\* ... at most MaxCalls times
MaxCalls == 1
\* the arrays handed to the helpers of bitsparser have up to MaxArr elements
MaxArr == 4
\* de_interleave is called with step in 1..MaxStep
MaxStep == 3
\* the files handed to parse_input have up to MaxLines lines
MaxLines == 2
\* the messages handed to the Reed-Solomon codecs have 1..MaxMsgLen symbols
MaxMsgLen == 2
\* ... each in 0..MaxSym
MaxSym == 1
\* a frame is received with at most MaxErr symbols corrupted
MaxErr == 1
\* codecs are made with nsym in 0..MaxNsym, beside the two nsym of rs and rs6
MaxNsym == 2
\* at most MaxSetup imports, codec constructions and table initialisations
MaxSetup == 1
\* at most MaxFecCalls calls of set_poly, set_initbb and fec
MaxFecCalls == 2
\* fec is called on up to MaxFecBits bits
MaxFecBits == 3
\* puncture is called on up to MaxPunctBits bits
MaxPunctBits == 7
\* the dividends of the GF(2) division are 0..MaxNum
MaxNum == 255
\* ... written with up to MaxPad leading zeros
MaxPad == 2
\* gf_poly_add is called on lists of up to MaxPolyLen coefficients
MaxPolyLen == 3
\* repair is called on any word of 1..MaxWord bits
MaxWord == 5

----------------------------------------------------------------------------
(* Python integer operators *)

Pow2(n) == 2 ^ n

\* int.bit_length() of 0..15
BitLengthNibble == [n \in 0..15 |-> IF n = 0 THEN 0 ELSE IF n < 2 THEN 1
                                    ELSE IF n < 4 THEN 2 ELSE IF n < 8 THEN 3 ELSE 4]

\* int.bit_length()
RECURSIVE bit_length(_)
bit_length(n) == IF n < 16 THEN BitLengthNibble[n] ELSE 4 + bit_length(n \div 16)

\* a ^ b on one bit
XorBit(a, b) == (a + b) % 2

\* a ^ b on 4-bit values, tabulated
XorNibble ==
    [a \in 0..15 |-> [b \in 0..15 |->
        XorBit(a % 2, b % 2)
        + 2 * XorBit((a \div 2) % 2, (b \div 2) % 2)
        + 4 * XorBit((a \div 4) % 2, (b \div 4) % 2)
        + 8 * XorBit((a \div 8) % 2, (b \div 8) % 2)]]

\* a ^ b on 8-bit values, tabulated
XorByte ==
    [a \in 0..255 |-> [b \in 0..255 |->
        XorNibble[a % 16][b % 16] + 16 * XorNibble[a \div 16][b \div 16]]]

\* a ^ b on non-negative ints of any width
RECURSIVE BitXor(_, _)
BitXor(a, b) ==
    IF a = 0 THEN b
    ELSE IF b = 0 THEN a
    ELSE XorByte[a % 256][b % 256] + 256 * BitXor(a \div 256, b \div 256)

\* a | b for a and b with no common bit (1 << n1 | 1 << n2 with n1 # n2)
BitOr(a, b) == BitXor(a, b)

\* a << n
Shl(a, n) == a * Pow2(n)

\* 10 ** n
Pow10(n) == 10 ^ n

\* a ^ (1 << n)
FlipBit(a, n) == BitXor(a, Shl(1, n))

\* int(b, 2): the value of a bit-string, most significant character first
\* (characters lo..hi of b)
RECURSIVE int2_range(_, _, _)
int2_range(b, lo, hi) ==
    IF lo > hi THEN 0
    ELSE IF lo = hi THEN b[lo] * Pow2(Len(b) - lo)
    ELSE int2_range(b, lo, (lo + hi) \div 2) + int2_range(b, (lo + hi) \div 2 + 1, hi)

int2(b) == int2_range(b, 1, Len(b))

\* f"{n:0{blen}b}": the binary digits of n, zero-padded on the left to blen
\* characters; longer than blen when n needs more digits
format_b(n, blen) ==
    LET digits == IF n = 0 THEN 1 ELSE bit_length(n)
        width == IF digits > blen THEN digits ELSE blen
    IN  [i \in 1..width |-> (n \div Pow2(width - i)) % 2]

----------------------------------------------------------------------------
(* bch.py: GF(2) division and multiplication *)

\* while shift >= 0: if num >= mask: num ^= (poly << shift) ...
RECURSIVE nndivide_loop(_, _, _, _)
nndivide_loop(poly, num, mask, shift) ==
    IF shift >= 0
    THEN nndivide_loop(poly,
                       IF num >= mask THEN BitXor(num, Shl(poly, shift)) ELSE num,
                       mask \div 2,
                       shift - 1)
    ELSE num

\* mutant of nndivide: the loop stops one shift early
nndivide_one_short(poly, num) ==
    IF num = 0 THEN 0
    ELSE nndivide_loop(Shl(poly, 1), num,
                       Shl(1, bit_length(num) - 1),
                       bit_length(num) - bit_length(poly) - 1)

nndivide(poly, num) ==
    IF num = 0 THEN 0
    ELSE nndivide_loop(poly, num,
                       Shl(1, bit_length(num) - 1),
                       bit_length(num) - bit_length(poly))

ndivide(poly, bits) == nndivide(poly, int2(bits))

divide(a, b) == nndivide(int2(a), int2(b))

RECURSIVE multiply_loop(_, _, _, _)
multiply_loop(a, b, idx, result) ==
    IF b > 0
    THEN multiply_loop(a, b \div 2, idx + 1,
                       IF b % 2 = 1 THEN BitXor(result, Shl(a, idx)) ELSE result)
    ELSE result

multiply(a, b) == multiply_loop(a, b, 0, 0)

----------------------------------------------------------------------------
(* bch.py: brute-force repair.  The loops are unfolded by halving their    *)
(* range, which visits the indices in the order of the for statement.      *)

\* mutant of repair_single: the loop starts at 1, for b1 in range(1, blen)
RECURSIVE repair_single_from1(_, _, _, _)
repair_single_from1(poly, bnum, lo, hi) ==
    IF lo > hi THEN -1
    ELSE IF lo = hi
         THEN (IF lo >= 1 /\ nndivide(poly, FlipBit(bnum, lo)) = 0 THEN lo ELSE -1)
    ELSE LET first == repair_single_from1(poly, bnum, lo, (lo + hi) \div 2)
         IN  IF first >= 0 THEN first
             ELSE repair_single_from1(poly, bnum, (lo + hi) \div 2 + 1, hi)

\* for b1 in range(lo, hi + 1): the first b1 whose flip zeroes the remainder,
\* -1 if none
RECURSIVE repair_single(_, _, _, _)
repair_single(poly, bnum, lo, hi) ==
    IF lo > hi THEN -1
    ELSE IF lo = hi
         THEN (IF nndivide(poly, FlipBit(bnum, lo)) = 0 THEN lo ELSE -1)
    ELSE LET first == repair_single(poly, bnum, lo, (lo + hi) \div 2)
         IN  IF first >= 0 THEN first
             ELSE repair_single(poly, bnum, (lo + hi) \div 2 + 1, hi)

\* mutant of repair_pair_inner: the inner loop skips the neighbour of b1,
\* for b2 in range(b1 + 2, blen)
RECURSIVE repair_pair_inner_skip(_, _, _, _, _)
repair_pair_inner_skip(poly, bnum, b1, lo, hi) ==
    IF lo > hi THEN -1
    ELSE IF lo = hi
         THEN (IF lo >= b1 + 2 /\ nndivide(poly, FlipBit(FlipBit(bnum, b1), lo)) = 0
               THEN lo ELSE -1)
    ELSE LET first == repair_pair_inner_skip(poly, bnum, b1, lo, (lo + hi) \div 2)
         IN  IF first >= 0 THEN first
             ELSE repair_pair_inner_skip(poly, bnum, b1, (lo + hi) \div 2 + 1, hi)

\* for b2 in range(lo, hi + 1): the first b2 whose flip, with that of b1, zeroes
\* the remainder, -1 if none
RECURSIVE repair_pair_inner(_, _, _, _, _)
repair_pair_inner(poly, bnum, b1, lo, hi) ==
    IF lo > hi THEN -1
    ELSE IF lo = hi
         THEN (IF nndivide(poly, FlipBit(FlipBit(bnum, b1), lo)) = 0 THEN lo ELSE -1)
    ELSE LET first == repair_pair_inner(poly, bnum, b1, lo, (lo + hi) \div 2)
         IN  IF first >= 0 THEN first
             ELSE repair_pair_inner(poly, bnum, b1, (lo + hi) \div 2 + 1, hi)

\* for b1 in range(lo, hi + 1): for b2 in range(b1 + 1, blen): the first pair
\* whose flips zero the remainder, <<-1, -1>> if none
RECURSIVE repair_pair(_, _, _, _, _)
repair_pair(poly, bnum, blen, lo, hi) ==
    IF lo > hi THEN <<-1, -1>>
    ELSE IF lo = hi
         THEN LET b2 == repair_pair_inner(poly, bnum, lo, lo + 1, blen - 1)
              IN  IF b2 >= 0 THEN <<lo, b2>> ELSE <<-1, -1>>
    ELSE LET first == repair_pair(poly, bnum, blen, lo, (lo + hi) \div 2)
         IN  IF first[1] >= 0 THEN first
             ELSE repair_pair(poly, bnum, blen, (lo + hi) \div 2 + 1, hi)

\* mutant of repair: the pairs of bits are tried before the single bits
repair_pairs_first(poly, b) ==
    LET remainder == nndivide(poly, int2(b))
        blen == Len(b)
        bnum == int2(b)
    IN  IF remainder = 0 THEN <<0, b>>
        ELSE LET p == repair_pair(poly, bnum, blen, 0, blen - 1)
             IN  IF p[1] >= 0
                 THEN <<2, format_b(FlipBit(FlipBit(bnum, p[1]), p[2]), blen)>>
                 ELSE LET s == repair_single(poly, bnum, 0, blen - 1)
                      IN  IF s >= 0
                          THEN <<1, format_b(FlipBit(bnum, s), blen)>>
                          ELSE <<-1, b>>

\* mutant of repair: the failure path returns the last word tried, not b
repair_last_tried(poly, b) ==
    LET remainder == nndivide(poly, int2(b))
        blen == Len(b)
        bnum == int2(b)
    IN  IF remainder = 0 THEN <<0, b>>
        ELSE LET s == repair_single(poly, bnum, 0, blen - 1)
             IN  IF s >= 0
                 THEN <<1, format_b(FlipBit(bnum, s), blen)>>
                 ELSE LET p == repair_pair(poly, bnum, blen, 0, blen - 1)
                      IN  IF p[1] >= 0
                          THEN <<2, format_b(FlipBit(FlipBit(bnum, p[1]), p[2]), blen)>>
                          ELSE <<-1, format_b(FlipBit(FlipBit(bnum, blen - 2), blen - 1),
                                              blen)>>

repair(poly, b) ==
    LET remainder == nndivide(poly, int2(b))
        blen == Len(b)
        bnum == int2(b)
    IN  IF remainder = 0 THEN <<0, b>>
        ELSE LET s == repair_single(poly, bnum, 0, blen - 1)
             IN  IF s >= 0
                 THEN <<1, format_b(FlipBit(bnum, s), blen)>>
                 ELSE LET p == repair_pair(poly, bnum, blen, 0, blen - 1)
                      IN  IF p[1] >= 0
                          THEN <<2, format_b(FlipBit(FlipBit(bnum, p[1]), p[2]), blen)>>
                          ELSE <<-1, b>>

----------------------------------------------------------------------------
(* bch.py: the syndrome tables *)

\* Python's None as a table slot
None == <<0, 0>>

\* [None] * n
NoneList(n) == [r \in 0..(n - 1) |-> None]

\* syndromes[poly] = tab
SetTable(reg, poly, tab) ==
    [p \in (DOMAIN reg) \cup {poly} |-> IF p = poly THEN tab ELSE reg[p]]

\* for n1 in range(lo, hi + 1): syndromes[poly][r] = (1, val)
\* st is the table so far and the exception raised so far
RECURSIVE mk_syn_single(_, _, _, _)
mk_syn_single(st, poly, lo, hi) ==
    IF lo > hi \/ st.exc # "none" THEN st
    ELSE IF lo = hi
         THEN LET val == Shl(1, lo)
                  r == nndivide(poly, val)
              IN  IF r \notin DOMAIN st.tab
                  THEN [st EXCEPT !.exc = "IndexError"]
                  ELSE [st EXCEPT !.tab[r] = <<1, val>>]
    ELSE mk_syn_single(mk_syn_single(st, poly, lo, (lo + hi) \div 2),
                       poly, (lo + hi) \div 2 + 1, hi)

\* for n2 in range(lo, hi + 1):
\*     if syndromes[poly][r] is None: syndromes[poly][r] = (2, val)
RECURSIVE mk_syn_pair_inner(_, _, _, _, _)
mk_syn_pair_inner(st, poly, n1, lo, hi) ==
    IF lo > hi \/ st.exc # "none" THEN st
    ELSE IF lo = hi
         THEN LET val == BitOr(Shl(1, n1), Shl(1, lo))
                  r == nndivide(poly, val)
              IN  IF r \notin DOMAIN st.tab
                  THEN [st EXCEPT !.exc = "IndexError"]
                  ELSE IF st.tab[r] = None
                       THEN [st EXCEPT !.tab[r] = <<2, val>>]
                       ELSE st
    ELSE mk_syn_pair_inner(mk_syn_pair_inner(st, poly, n1, lo, (lo + hi) \div 2),
                           poly, n1, (lo + hi) \div 2 + 1, hi)

\* for n1 in range(lo, hi + 1): for n2 in range(n1 + 1, bits): ...
RECURSIVE mk_syn_pair(_, _, _, _, _)
mk_syn_pair(st, poly, bits, lo, hi) ==
    IF lo > hi \/ st.exc # "none" THEN st
    ELSE IF lo = hi THEN mk_syn_pair_inner(st, poly, lo, lo + 1, bits - 1)
    ELSE mk_syn_pair(mk_syn_pair(st, poly, bits, lo, (lo + hi) \div 2),
                     poly, bits, (lo + hi) \div 2 + 1, hi)

\* mk_syn(poly, bits, synbits, errors) on registry reg: the registry it leaves
\* and the exception it raises ("none" when it returns)
mk_syn(reg, poly, bits, synbits, errors) ==
    IF errors \notin {1, 2, 3} THEN [reg |-> reg, exc |-> "AssertionError"]
    ELSE LET new == [tab |-> NoneList(Pow2(synbits)), exc |-> "none"]
             one == mk_syn_single(new, poly, 0, bits - 1)
             two == IF errors >= 2 THEN mk_syn_pair(one, poly, bits, 0, bits - 1)
                                   ELSE one
         IN  [reg |-> SetTable(reg, poly, two.tab), exc |-> two.exc]

\* mutant of Configs: the first table is built one bit too small
\* (mk_syn(poly=29, bits=7, synbits=3))
Configs_small_table ==
    << <<29, 7, 3, 1>>, <<465, 14, 8, 2>>, <<41, 26, 5, 1>>,
       <<1897, 31, 10, 2>>, <<1207, 31, 10, 2>>, <<3545, 31, 11, 2>> >>

\* the six configurations of init(): <<poly, bits, synbits, errors>>
Configs ==
    << <<29, 7, 4, 1>>, <<465, 14, 8, 2>>, <<41, 26, 5, 1>>,
       <<1897, 31, 10, 2>>, <<1207, 31, 10, 2>>, <<3545, 31, 11, 2>> >>

RECURSIVE init_loop(_, _)
init_loop(reg, i) ==
    IF i > Len(Configs) THEN reg
    ELSE init_loop(mk_syn(reg, Configs[i][1], Configs[i][2], Configs[i][3],
                          Configs[i][4]).reg,
                   i + 1)

\* the registry after import of bch (init() runs at import)
init == init_loop(<<>>, 1)

----------------------------------------------------------------------------
(* Python names, calls and sequences *)

\* looking up a name that the module does not bind raises NameError (a bare
\* name) or AttributeError (module.name)
Lookup(name, names, error) == IF name \in names THEN "none" ELSE error

\* a call binds when its positional arguments fit the parameters and every
\* keyword names a parameter not bound by position; otherwise it raises
\* TypeError before the body runs
Binds(params, npos, kws) ==
    /\ npos <= Len(params)
    /\ \A k \in kws : \E i \in (npos + 1)..Len(params) : params[i] = k

\* index n of a slice bound, clamped to 0..len as slicing does
SliceIndex(len, n) ==
    LET i == IF n < 0 THEN len + n ELSE n
    IN  IF i < 0 THEN 0 ELSE IF i > len THEN len ELSE i

\* s[:n]
PyPrefix(s, n) == SubSeq(s, 1, SliceIndex(Len(s), n))

\* s[n:]
PyFrom(s, n) == SubSeq(s, SliceIndex(Len(s), n) + 1, Len(s))

\* s[a:b]
PySlice(s, a, b) == SubSeq(s, SliceIndex(Len(s), a) + 1, SliceIndex(Len(s), b))

\* [0] * n
Zeros(n) == [i \in 1..n |-> 0]

\* x & mask is non-zero, for a mask with a single bit set
TestBit(x, mask) == (x \div mask) % 2 = 1

\* max(s) of a non-empty sequence of ints
SeqMax(s) == CHOOSE m \in {s[i] : i \in 1..Len(s)} : \A i \in 1..Len(s) : s[i] <= m

\* a byte sequence and the Python type that holds it ("bytearray" or "list")
Bytes(kind, val) == [kind |-> kind, val |-> val]

\* the value of a call: the exception it raised ("none" if it returned) and
\* what it returned
Raise(e) == [exc |-> e, val |-> <<>>]
Value(v) == [exc |-> "none", val |-> v]

----------------------------------------------------------------------------
(* reedsolo.py *)

\* GF_EXP = None, GF_LOG = None (reedsolo.py:20-21); FIELD_SIZE = None is 0
NoTable == <<>>

\* the names reedsolo.py binds at module level
reedsolo_names ==
    {"itertools", "array", "GF_EXP", "GF_LOG", "FIELD_SIZE", "ReedSolomonError",
     "init_gf", "gf_add", "gf_mul", "gf_div", "gf_poly_add", "gf_poly_mul",
     "rs_generator_poly", "rs_encode_msg", "rs_calc_syndromes",
     "rs_find_error_locator", "rs_correct_msg", "RSCodec"}

\* def rs_encode_msg(msg, nsym), def rs_correct_msg(msg_in, nsym)
reedsolo_rs_encode_msg_params == <<"msg", "nsym">>
reedsolo_rs_correct_msg_params == <<"msg_in", "nsym">>

\* for i in range(lo, hi + 1): GF_EXP[i] = x; GF_LOG[x] = i; x <<= 1; ...
\* an array("B") item above 255 raises OverflowError, an index past GF_LOG
\* IndexError
RECURSIVE init_gf_loop(_, _, _, _, _)
init_gf_loop(st, prim, field_size, lo, hi) ==
    IF lo > hi \/ st.exc # "none" THEN st
    ELSE IF lo = hi
         THEN IF st.x > 255 THEN [st EXCEPT !.exc = "OverflowError"]
              ELSE IF st.x \notin DOMAIN st.log
                   THEN [st EXCEPT !.exp[lo] = st.x, !.exc = "IndexError"]
              ELSE LET x2 == Shl(st.x, 1)
                   IN  [exp |-> [st.exp EXCEPT ![lo] = st.x],
                        log |-> [st.log EXCEPT ![st.x] = lo],
                        x |-> IF TestBit(x2, field_size) THEN BitXor(x2, prim) ELSE x2,
                        exc |-> "none"]
    ELSE init_gf_loop(init_gf_loop(st, prim, field_size, lo, (lo + hi) \div 2),
                      prim, field_size, (lo + hi) \div 2 + 1, hi)

\* init_gf(prim, generator, field_size): the globals it leaves and the
\* exception it raises
init_gf(prim, generator, field_size) ==
    LET size == field_size - 1
        st == init_gf_loop([exp |-> [i \in 0..(size * 2 - 1) |-> 1],
                            log |-> [i \in 0..size |-> 0],
                            x |-> 1, exc |-> "none"],
                           prim, field_size, 0, size - 1)
    IN  [exc |-> st.exc,
         val |-> [GF_EXP |-> IF st.exc # "none" THEN st.exp
                             ELSE [i \in 0..(size * 2 - 1) |->
                                      IF i >= size THEN st.exp[i - size] ELSE st.exp[i]],
                  GF_LOG |-> st.log,
                  FIELD_SIZE |-> size]]

\* gf_mul(x, y) on tables g
gf_mul(g, x, y) ==
    IF x = 0 \/ y = 0 THEN 0
    ELSE g.GF_EXP[(g.GF_LOG[x] + g.GF_LOG[y]) % g.FIELD_SIZE]

\* the xor of gf_mul(p[i], q[k + 1 - i]) for i in lo..hi: what the two loops of
\* gf_poly_mul add into result[k]
RECURSIVE gf_poly_mul_coeff(_, _, _, _, _, _)
gf_poly_mul_coeff(g, p, q, k, lo, hi) ==
    IF lo > hi THEN 0
    ELSE BitXor(gf_mul(g, p[lo], q[k + 1 - lo]), gf_poly_mul_coeff(g, p, q, k, lo + 1, hi))

\* gf_poly_mul(p, q)
gf_poly_mul(g, p, q) ==
    [k \in 1..(Len(p) + Len(q) - 1) |->
        gf_poly_mul_coeff(g, p, q, k,
                          IF k + 1 - Len(q) > 1 THEN k + 1 - Len(q) ELSE 1,
                          IF k < Len(p) THEN k ELSE Len(p))]

\* for i in range(i, nsym): g = gf_poly_mul(g, [1, GF_EXP[i]])
RECURSIVE rs_generator_poly_loop(_, _, _, _)
rs_generator_poly_loop(g, gen, i, nsym) ==
    IF i >= nsym THEN gen
    ELSE rs_generator_poly_loop(g, gf_poly_mul(g, gen, <<1, g.GF_EXP[i]>>), i + 1, nsym)

\* rs_generator_poly(nsym)
rs_generator_poly(g, nsym) == rs_generator_poly_loop(g, <<1>>, 0, nsym)

\* for i in range(i - 1, n): coef = msg_out[i]; if coef != 0: for j ...
RECURSIVE rs_encode_msg_loop(_, _, _, _, _)
rs_encode_msg_loop(g, msg_out, gen, i, n) ==
    IF i > n THEN msg_out
    ELSE LET coef == msg_out[i]
         IN  rs_encode_msg_loop(g,
                 IF coef = 0 THEN msg_out
                 ELSE [k \in 1..Len(msg_out) |->
                          IF k >= i /\ k < i + Len(gen)
                          THEN BitXor(msg_out[k], gf_mul(g, gen[k - i + 1], coef))
                          ELSE msg_out[k]],
                 gen, i + 1, n)

\* rs_encode_msg(msg, nsym) on tables g.  With the tables still None the first
\* subscript of one raises TypeError: GF_EXP[0] when nsym >= 1, GF_LOG[x] at
\* the first non-zero symbol.  msg + msg_out[-nsym:] raises TypeError for a
\* list; msg_out[-0:] is the whole of msg_out.
rs_encode_msg(g, msg, nsym) ==
    IF g.GF_EXP = NoTable /\ (nsym >= 1 \/ \E i \in 1..Len(msg.val) : msg.val[i] # 0)
    THEN Raise("TypeError")
    ELSE LET gen == rs_generator_poly(g, nsym)
             msg_out == rs_encode_msg_loop(g, msg.val \o Zeros(nsym), gen, 1, Len(msg.val))
         IN  IF msg.kind = "list" THEN Raise("TypeError")
             ELSE Value(Bytes(msg.kind, msg.val \o PyFrom(msg_out, 0 - nsym)))

\* rs_calc_syndromes(msg, nsym): gf_poly_eval is looked up once per i
rs_calc_syndromes(msg, nsym) ==
    IF nsym = 0 THEN Value(<<>>)
    ELSE Raise(Lookup("gf_poly_eval", reedsolo_names, "NameError"))

\* rs_correct_msg(msg_in, nsym): max() of no syndromes raises ValueError;
\* with a non-zero syndrome rs_find_error_locator looks up gf_poly_scale at
\* the first non-zero discrepancy
rs_correct_msg(msg_in, nsym) ==
    LET msg_out == msg_in.val
        synd == rs_calc_syndromes(msg_out, nsym)
    IN  IF synd.exc # "none" THEN Raise(synd.exc)
        ELSE IF synd.val = <<>> THEN Raise("ValueError")
        ELSE IF SeqMax(synd.val) = 0
             THEN Value(<<PyPrefix(msg_out, 0 - nsym), PyFrom(msg_out, 0 - nsym)>>)
        ELSE Raise(Lookup("gf_poly_scale", reedsolo_names, "NameError"))

----------------------------------------------------------------------------
(* reedsolo6.py *)

\* the names reedsolo6.py binds at module level
reedsolo6_names ==
    {"ReedSolomonError", "GF_EXP", "GF_LOG", "FIELD_SIZE", "init_tables", "gf_add",
     "gf_multiply", "gf_multiply_no_lut", "gf_poly_add", "gf_poly_multiply",
     "rs_generator_poly", "rs_encode_msg", "rs_decode_msg", "RSCodec"}

\* def init_tables(prim, generator, field_exp),
\* def rs_encode_msg(msg, nsym, generator, gen)
reedsolo6_init_tables_params == <<"prim", "generator", "field_exp">>
reedsolo6_rs_encode_msg_params == <<"msg", "nsym", "generator", "gen">>

\* the globals of reedsolo6 after import (reedsolo6.py:24-26)
reedsolo6_globals ==
    [GF_EXP |-> [i \in 0..511 |-> 1], GF_LOG |-> [i \in 0..255 |-> 0], FIELD_SIZE |-> 255]

\* while y: if y & 1: result ^= x ...
RECURSIVE gf_multiply_no_lut_loop(_, _, _, _, _)
gf_multiply_no_lut_loop(x, y, prim, field_char, result) ==
    IF y = 0 THEN result
    ELSE LET x2 == Shl(x, 1)
         IN  gf_multiply_no_lut_loop(
                 IF prim > 0 /\ TestBit(x2, field_char) THEN BitXor(x2, prim) ELSE x2,
                 y \div 2, prim, field_char,
                 IF y % 2 = 1 THEN BitXor(result, x) ELSE result)

\* gf_multiply_no_lut(x, y, prim, field_char)
gf_multiply_no_lut(x, y, prim, field_char) ==
    gf_multiply_no_lut_loop(x, y, prim, field_char, 0)

\* for i in range(lo, hi + 1): GF_EXP[i] = x; GF_LOG[x] = i; x = ...
\* a bytearray item above 255 raises ValueError, an index past GF_LOG IndexError
RECURSIVE init_tables_loop(_, _, _, _, _)
init_tables_loop(st, prim, generator, lo, hi) ==
    IF lo > hi \/ st.exc # "none" THEN st
    ELSE IF lo = hi
         THEN IF st.x > 255 THEN [st EXCEPT !.exc = "ValueError"]
              ELSE IF st.x \notin DOMAIN st.log
                   THEN [st EXCEPT !.exp[lo] = st.x, !.exc = "IndexError"]
              ELSE [exp |-> [st.exp EXCEPT ![lo] = st.x],
                    log |-> [st.log EXCEPT ![st.x] = lo],
                    x |-> gf_multiply_no_lut(st.x, generator, prim, st.size + 1),
                    size |-> st.size, exc |-> "none"]
    ELSE init_tables_loop(init_tables_loop(st, prim, generator, lo, (lo + hi) \div 2),
                          prim, generator, (lo + hi) \div 2 + 1, hi)

\* init_tables(prim, generator, field_exp): the globals it leaves and the
\* exception it raises
init_tables(prim, generator, field_exp) ==
    LET size == Pow2(field_exp) - 1
        st == init_tables_loop([exp |-> [i \in 0..(size * 2 - 1) |-> 0],
                                log |-> [i \in 0..size |-> 0],
                                x |-> 1, size |-> size, exc |-> "none"],
                               prim, generator, 0, size - 1)
    IN  [exc |-> st.exc,
         val |-> [GF_EXP |-> IF st.exc # "none" THEN st.exp
                             ELSE [i \in 0..(size * 2 - 1) |->
                                      IF i >= size THEN st.exp[i - size] ELSE st.exp[i]],
                  GF_LOG |-> st.log,
                  FIELD_SIZE |-> size]]

\* gf_multiply(x, y) on tables g
gf_multiply(g, x, y) ==
    IF x = 0 \/ y = 0 THEN 0
    ELSE g.GF_EXP[(g.GF_LOG[x] + g.GF_LOG[y]) % g.FIELD_SIZE]

\* the xor of gf_multiply(p[i], q[k + 1 - i]) for i in lo..hi: what the two
\* loops of gf_poly_multiply add into r[k]
RECURSIVE gf_poly_multiply_coeff(_, _, _, _, _, _)
gf_poly_multiply_coeff(g, p, q, k, lo, hi) ==
    IF lo > hi THEN 0
    ELSE BitXor(gf_multiply(g, p[lo], q[k + 1 - lo]),
                gf_poly_multiply_coeff(g, p, q, k, lo + 1, hi))

\* gf_poly_multiply(p, q)
gf_poly_multiply(g, p, q) ==
    [k \in 1..(Len(p) + Len(q) - 1) |->
        gf_poly_multiply_coeff(g, p, q, k,
                               IF k + 1 - Len(q) > 1 THEN k + 1 - Len(q) ELSE 1,
                               IF k < Len(p) THEN k ELSE Len(p))]

\* rs_generator_poly(nsym, generator): gf_exp is looked up once per i
reedsolo6_rs_generator_poly(nsym, generator) ==
    IF nsym = 0 THEN Value(<<1>>)
    ELSE Raise(Lookup("gf_exp", reedsolo6_names, "NameError"))

\* for i in range(i - 1, n): coef = padded_msg[i]; if coef != 0: for j ...
RECURSIVE reedsolo6_rs_encode_msg_loop(_, _, _, _, _)
reedsolo6_rs_encode_msg_loop(g, padded_msg, gen, i, n) ==
    IF i > n THEN padded_msg
    ELSE LET coef == padded_msg[i]
         IN  reedsolo6_rs_encode_msg_loop(g,
                 IF coef = 0 THEN padded_msg
                 ELSE [k \in 1..Len(padded_msg) |->
                          IF k >= i /\ k < i + Len(gen)
                          THEN BitXor(padded_msg[k], gf_multiply(g, gen[k - i + 1], coef))
                          ELSE padded_msg[k]],
                 gen, i + 1, n)

\* rs_encode_msg(msg, nsym, generator, gen) on tables g; gen = <<>> is
\* gen=None.  padded_msg[-len(gen) + 1:] is the whole of padded_msg when
\* len(gen) = 1.
reedsolo6_rs_encode_msg(g, msg, nsym, generator, gen) ==
    LET gen2 == IF gen = <<>> THEN reedsolo6_rs_generator_poly(nsym, generator)
                ELSE Value(gen)
    IN  IF gen2.exc # "none" THEN Raise(gen2.exc)
        ELSE LET padded_msg ==
                     reedsolo6_rs_encode_msg_loop(g, msg.val \o Zeros(Len(gen2.val) - 1),
                                                  gen2.val, 1, Len(msg.val))
             IN  Value(Bytes("bytearray",
                             msg.val \o PyFrom(padded_msg, 1 - Len(gen2.val))))

\* rs_decode_msg(msg, nsym, generator): gf_poly_eval is looked up once per i;
\* max() of no syndromes raises ValueError
rs_decode_msg(msg, nsym, generator) ==
    IF nsym = 0 THEN Raise("ValueError")
    ELSE Raise(Lookup("gf_poly_eval", reedsolo6_names, "NameError"))

----------------------------------------------------------------------------
(* rs.py and rs6.py *)

\* the parameters of rs.py
GENERATOR == 2
FCR == 0
NSYM == 8
ELEN == 8
C_EXP == 8
PRIM == 285

\* the parameters of rs6.py
GENERATOR6 == 2
FCR6 == 54
NSYM6 == 10
ELEN6 == 0
C_EXP6 == 6
PRIM6 == 67

\* the value of rs_check or rs_fix: the exception that escapes it ("none" if
\* it returns), the flag, message and parity it returns (<<>> is None) and the
\* caller's frame object as the call leaves it
Outcome(exc, flag, msg, ecc, data) ==
    [exc |-> exc, flag |-> flag, msg |-> msg, ecc |-> ecc, data |-> data]

\* rs.py line 27: reedsolo.init_tables(prim=PRIM, generator=GENERATOR, c_exp=C_EXP)
rs_import == Lookup("init_tables", reedsolo_names, "AttributeError")

\* rs6.py line 26: reedsolo6.init_tables(prim=PRIM, generator=GENERATOR, c_exp=C_EXP)
rs6_import ==
    IF Lookup("init_tables", reedsolo6_names, "AttributeError") # "none"
    THEN "AttributeError"
    ELSE IF ~Binds(reedsolo6_init_tables_params, 0, {"prim", "generator", "c_exp"})
         THEN "TypeError"
    ELSE init_tables(PRIM6, GENERATOR6, C_EXP6).exc

\* rs.rs_check(data) on reedsolo's tables g: the call passes fcr=FCR
rs_check(g, data) ==
    LET mlen == Len(data.val) - NSYM
        encoded_msg ==
            IF ~Binds(reedsolo_rs_encode_msg_params, 2, {"fcr"}) THEN Raise("TypeError")
            ELSE rs_encode_msg(g, Bytes(data.kind, PyPrefix(data.val, mlen)), NSYM + ELEN)
    IN  IF encoded_msg.exc # "none" THEN Outcome("none", "False", <<>>, <<>>, data)
        ELSE Outcome("none",
                     IF PyFrom(data.val, mlen)
                            = PySlice(encoded_msg.val.val, mlen, Len(data.val))
                     THEN "True" ELSE "False",
                     <<>>, <<>>, data)

\* rs.rs_fix(data): data += [0] * ELEN raises TypeError for a bytearray and
\* extends a list in place; the call passes five arguments, one by keyword;
\* only ReedSolomonError and ZeroDivisionError are caught
rs_fix(data) ==
    IF data.kind # "list" THEN Outcome("TypeError", "", <<>>, <<>>, data)
    ELSE LET data2 == Bytes(data.kind, data.val \o Zeros(ELEN))
             corrected ==
                 IF ~Binds(reedsolo_rs_correct_msg_params, 4, {"erase_pos"})
                 THEN Raise("TypeError")
                 ELSE rs_correct_msg(data2, NSYM + ELEN)
         IN  IF corrected.exc = "none"
             THEN Outcome("none", "True", corrected.val[1],
                          PyPrefix(corrected.val[2], NSYM), data2)
             ELSE IF corrected.exc \in {"ReedSolomonError", "ZeroDivisionError"}
                  THEN Outcome("none", "False", <<>>, <<>>, data2)
             ELSE Outcome(corrected.exc, "", <<>>, <<>>, data2)

\* rs6.rs_check(data) on reedsolo6's tables g: the call passes fcr=FCR
rs6_rs_check(g, data) ==
    LET message_length == Len(data.val) - NSYM6
        encoded_msg ==
            IF ~Binds(reedsolo6_rs_encode_msg_params, 2, {"fcr"}) THEN Raise("TypeError")
            ELSE reedsolo6_rs_encode_msg(g,
                     Bytes(data.kind, PyPrefix(data.val, message_length)),
                     NSYM6 + ELEN6, 2, <<>>)
    IN  IF encoded_msg.exc # "none" THEN Outcome("none", "False", <<>>, <<>>, data)
        ELSE Outcome("none",
                     IF PyFrom(data.val, message_length)
                            = PyFrom(encoded_msg.val.val, message_length)
                     THEN "True" ELSE "False",
                     <<>>, <<>>, data)

\* rs6.rs_fix(data): data += [] raises TypeError for a bytearray;
\* reedsolo6.rs_correct_msg does not exist
rs6_rs_fix(data) ==
    IF data.kind # "list" THEN Outcome("TypeError", "", <<>>, <<>>, data)
    ELSE LET data2 == Bytes(data.kind, data.val \o Zeros(ELEN6))
             corrected == Raise(Lookup("rs_correct_msg", reedsolo6_names, "AttributeError"))
         IN  IF corrected.exc \in {"ReedSolomonError", "ZeroDivisionError"}
             THEN Outcome("none", "False", <<>>, <<>>, data2)
             ELSE Outcome(corrected.exc, "", <<>>, <<>>, data2)

----------------------------------------------------------------------------
(* fec.py: the convolutional encoder and the puncturing.  A numpy array of *)
(* int8 is the sequence of its elements; the module globals p1, p2 and     *)
(* initbb are the fields of a record.                                      *)

\* listify(v): the digits of a binary string as an array
listify(v) == v

POLYA == 109
POLYB == 79

\* the globals after import: p1, p2 (fec.py:22-23) and initbb (fec.py:34)
fec_import ==
    [p1 |-> listify(format_b(POLYA, 7)), p2 |-> listify(format_b(POLYB, 7)),
     initbb |-> Zeros(Len(listify(format_b(POLYA, 7))))]

\* set_poly(pa, pb): the globals it leaves and the exception it raises
set_poly(g, pa, pb) ==
    LET new == [g EXCEPT !.p1 = listify(format_b(pa, 7)),
                         !.p2 = listify(format_b(pb, 7))]
    IN  [g |-> new,
         exc |-> IF Len(new.p1) # Len(new.p2) THEN "ValueError" ELSE "none"]

\* set_initbb(buffer)
set_initbb(g, buffer) ==
    IF Len(buffer) # Len(g.p1) THEN [g |-> g, exc |-> "ValueError"]
    ELSE [g |-> [g EXCEPT !.initbb = buffer], exc |-> "none"]

\* np.roll(bb, -1)
np_roll_left(bb) == IF bb = <<>> THEN bb ELSE Append(Tail(bb), bb[1])

\* np.dot(p, bb) of two arrays of the same length
RECURSIVE np_dot(_, _, _)
np_dot(p, bb, i) == IF i = 0 THEN 0 ELSE np_dot(p, bb, i - 1) + p[i] * bb[i]

\* the loop of fec from input bit i on: bb is the register, outs the list out
RECURSIVE fec_loop(_, _, _, _, _)
fec_loop(g, bits, i, bb, outs) ==
    IF i > Len(bits) THEN Value(outs)
    ELSE IF bb = <<>> THEN Raise("IndexError")
    ELSE LET rolled == np_roll_left(bb)
             reg == [rolled EXCEPT ![Len(rolled)] = bits[i]]
         IN  IF Len(g.p1) # Len(reg) \/ Len(g.p2) # Len(reg) THEN Raise("ValueError")
             ELSE fec_loop(g, bits, i + 1, reg,
                           outs \o <<np_dot(g.p1, reg, Len(reg)) % 2,
                                     np_dot(g.p2, reg, Len(reg)) % 2>>)

\* fec(bits): the list returned, or the exception raised
fec(g, bits) == fec_loop(g, bits, 1, g.initbb, <<>>)

\* the depuncture patterns (fec.py:62-78)
patterns ==
    [d1a |-> <<1, 0, 1, 1, 1, 0>>, d1b |-> <<0, 1, 1, 1, 0, 1>>,
     d1c |-> <<1, 1, 1, 0, 1, 0>>, d1d |-> <<1, 1, 0, 1, 0, 1>>,
     d1e |-> <<1, 0, 1, 0, 1, 1>>, d1f |-> <<0, 1, 0, 1, 1, 1>>,
     d2a |-> <<1, 1, 0, 1, 1, 0>>, d2b |-> <<1, 0, 1, 1, 0, 1>>,
     d2c |-> <<0, 1, 1, 0, 1, 1>>, d3a |-> <<1, 1, 1, 0, 0, 1>>,
     d3b |-> <<1, 1, 0, 0, 1, 1>>, d3c |-> <<1, 0, 0, 1, 1, 1>>,
     d3d |-> <<0, 0, 1, 1, 1, 1>>, d3e |-> <<0, 1, 1, 1, 1, 0>>,
     d3f |-> <<1, 1, 1, 1, 0, 0>>]

\* str(bit) of a bit
str_bit(bit) == IF bit = 0 THEN "0" ELSE "1"

\* mutant of puncture: the schedule is read one position ahead
puncture_one_ahead(dp, bits) ==
    IF bits # <<>> /\ dp = <<>> THEN Raise("ZeroDivisionError")
    ELSE Value([k \in 1..Len(bits) |->
                    IF dp[(k % Len(dp)) + 1] # 0 THEN str_bit(bits[k]) ELSE "."])

\* puncture(dp, bits): the text returned, a sequence of characters
puncture(dp, bits) ==
    IF bits # <<>> /\ dp = <<>> THEN Raise("ZeroDivisionError")
    ELSE Value([k \in 1..Len(bits) |->
                    IF dp[((k - 1) % Len(dp)) + 1] # 0 THEN str_bit(bits[k]) ELSE "."])

----------------------------------------------------------------------------
(* reedsolo.py and reedsolo6.py: the sum of two polynomials *)

\* gf_add(x, y)
gf_add(x, y) == BitXor(x, y)

\* reedsolo.gf_poly_add(p, q): both lists are padded with zeros at the end
gf_poly_add(p, q) ==
    LET length == IF Len(p) > Len(q) THEN Len(p) ELSE Len(q)
        pp == p \o Zeros(length - Len(p))
        qq == q \o Zeros(length - Len(q))
    IN  [i \in 1..length |-> gf_add(pp[i], qq[i])]

\* reedsolo6.gf_poly_add(p, q): both are copied to the end of r
reedsolo6_gf_poly_add(p, q) ==
    LET length == IF Len(p) > Len(q) THEN Len(p) ELSE Len(q)
        r == [i \in 1..length |->
                 IF i > length - Len(p) THEN p[i - (length - Len(p))] ELSE 0]
    IN  [i \in 1..length |->
            IF i > length - Len(q) THEN BitXor(r[i], q[i - (length - Len(q))]) ELSE r[i]]

----------------------------------------------------------------------------
(* The BCH decoder as a state machine: a codeword of one configuration is  *)
(* sent, the channel flips some of its bits, repair is called on the word  *)
(* received; mk_syn may be called with further parameters.                 *)

NoCfg == <<0, 0, 0, 0>>
NoRes == <<-2, <<>>>>

\* number of message bits of a configuration
MsgBits(c) == c[2] - (bit_length(c[1]) - 1)

\* the messages whose codewords are sent
Msgs(c) == {q \in 1..(1 + MaxQ) : q < Pow2(MsgBits(c))}

ConfigSet == {Configs[i] : i \in 1..Len(Configs)}

\* error patterns of weight at most 2 on bits positions
Errors2(bits) ==
    {{}} \cup {{i} : i \in 0..(bits - 1)}
         \cup {{i, j} : i \in 0..(bits - 1), j \in 0..(bits - 1)}

\* error patterns of weight 3 on bits positions, within MaxSpan + 1 positions
Errors3(bits) ==
    {e \in {{i, i + a, i + b} : i \in 0..(bits - 1), a \in 1..MaxSpan, b \in 2..MaxSpan} :
        Cardinality(e) = 3 /\ \A k \in e : k < bits}

\* b with the characters of the bit positions in e flipped
FlipAll(b, e) == [i \in 1..Len(b) |-> IF (Len(b) - i) \in e THEN 1 - b[i] ELSE b[i]]

BchInit ==
    /\ syndromes = init
    /\ mkexc = "none"
    /\ mkargs = <<>>
    /\ cfg = NoCfg
    /\ cw = <<>>
    /\ word = <<>>
    /\ flips = {}
    /\ res = NoRes

\* the codeword of message q under configuration c is sent and received with
\* the bits in e flipped
Receive(c, q, e) ==
    /\ cfg = NoCfg
    /\ cfg' = c
    /\ cw' = format_b(multiply(c[1], q), c[2])
    /\ word' = FlipAll(cw', e)
    /\ flips' = e
    /\ res' = NoRes
    /\ UNCHANGED <<syndromes, mkexc, mkargs, rsvars, extvars>>

\* repair(poly, word)
Repair ==
    /\ cfg # NoCfg
    /\ res = NoRes
    /\ res' = repair(cfg[1], word)
    /\ UNCHANGED <<syndromes, mkexc, mkargs, cfg, cw, word, flips, rsvars, extvars>>

\* the caller takes the result; the next word may be received
Return ==
    /\ res # NoRes
    /\ cfg' = NoCfg
    /\ cw' = <<>>
    /\ word' = <<>>
    /\ flips' = {}
    /\ res' = NoRes
    /\ UNCHANGED <<syndromes, mkexc, mkargs, rsvars, extvars>>

\* the bit-string b is received and is to be repaired with generator poly
ReceiveWord(poly, b) ==
    /\ cfg = NoCfg
    /\ cfg' = <<poly, Len(b), 0, 0>>
    /\ cw' = <<>>
    /\ word' = b
    /\ flips' = {}
    /\ res' = NoRes
    /\ UNCHANGED <<syndromes, mkexc, mkargs, rsvars, extvars>>

\* mk_syn(poly, bits, synbits, errors) called after import
MkSyn(poly, bits, synbits, errors) ==
    /\ Len(mkargs) < MaxCalls
    /\ LET r == mk_syn(syndromes, poly, bits, synbits, errors)
       IN  /\ syndromes' = r.reg
           /\ mkexc' = r.exc
    /\ mkargs' = Append(mkargs, <<poly, bits, synbits, errors>>)
    /\ UNCHANGED <<cfg, cw, word, flips, res, rsvars, extvars>>

----------------------------------------------------------------------------
(* bitsparser.py: the helpers on arrays.  A numpy array of uint8 is the    *)
(* sequence of its elements; a returned tuple of arrays is a sequence of   *)
(* sequences.                                                              *)

\* s[::-1]
Reversed(s) == [i \in 1..Len(s) |-> s[Len(s) + 1 - i]]

\* mutant of lookup_table: the table built from 7 binary digits (f"{i:07b}")
lookup_table_7_digits == [i \in 0..255 |-> int2(Reversed(format_b(i, 7)))]

\* [int(f"{i:08b}"[::-1], 2) for i in range(256)]
lookup_table == [i \in 0..255 |-> int2(Reversed(format_b(i, 8)))]

\* reverse_bits(data): lookup_table[data], one table entry per element
reverse_bits(a) == [k \in 1..Len(a) |-> lookup_table[a[k]]]

\* bits[start::step] for step >= 1
Strided(bits, start, step) ==
    LET n == IF Len(bits) > start THEN (Len(bits) - start + step - 1) \div step ELSE 0
    IN  [k \in 1..n |-> bits[start + (k - 1) * step + 1]]

\* de_interleave(bits, step)
de_interleave(bits, step) == <<Strided(bits, 0, step), Strided(bits, 1, step)>>

\* de_interleave3(bits)
de_interleave3(bits) == <<Strided(bits, 0, 3), Strided(bits, 1, 3), Strided(bits, 2, 3)>>

\* mutant of view_uint16: only the low byte of each pair is kept
view_uint16_low_byte(a) == [w \in 1..(Len(a) \div 2) |-> a[2 * w - 1]]

\* data.view(np.uint16): pairs of bytes, the low byte first; ValueError when
\* the number of bytes is odd
view_uint16(a) == [w \in 1..(Len(a) \div 2) |-> a[2 * w - 1] + 256 * a[2 * w]]

\* np.sum(words): the sum as an unsigned 64-bit integer
RECURSIVE np_sum(_, _, _)
np_sum(words, lo, hi) ==
    IF lo > hi THEN 0
    ELSE IF lo = hi THEN words[lo]
    ELSE np_sum(words, lo, (lo + hi) \div 2) + np_sum(words, (lo + hi) \div 2 + 1, hi)

\* checksum_16(data)
checksum_16(a) ==
    IF Len(a) % 2 = 1 THEN Raise("ValueError")
    ELSE LET words == view_uint16(a)
             csum == np_sum(words, 1, Len(words))
             folded == (csum % 65536) + (csum \div 65536)
         IN  Value(BitXor(folded, 65535))

----------------------------------------------------------------------------
(* The array helpers of bitsparser.py as a state machine: a caller holds   *)
(* an array, calls a helper on it, and may call again on what it got or    *)
(* on the array with one bit flipped.                                      *)

\* the element values of the longer arrays
SampleBytes == {0, 1, 128, 255}

\* the arrays handed to the helpers: every single byte, the arrays of up to
\* MaxArr elements over SampleBytes, and the arrays of three sample words
RECURSIVE ArraysOfLen(_)
ArraysOfLen(n) ==
    IF n = 0 THEN {<<>>}
    ELSE {Append(a, b) : a \in ArraysOfLen(n - 1), b \in SampleBytes}

\* arrays of three 16-bit words, each word 0xFFFF, 1 or 0
SampleWords == {<<255, 255>>, <<1, 0>>, <<0, 0>>}
WordArrays == {a \o b \o c : a \in SampleWords, b \in SampleWords, c \in SampleWords}

Arrays ==
    {<<b>> : b \in 0..255} \cup UNION {ArraysOfLen(n) : n \in 0..MaxArr} \cup WordArrays

\* a call of helper f with step argument step (0 when it has none)
Call(f, step) == [f |-> f, step |-> step]

\* the helpers called so far are all f
OnlyCalled(f) == \A k \in 1..Len(bsop) : bsop[k].f = f

BitsInit ==
    /\ bsin \in Arrays
    /\ bsarr = bsin
    /\ bsop = <<>>
    /\ bsret = <<>>

\* data = reverse_bits(data)
ReverseBits ==
    /\ Len(bsop) < 2 /\ OnlyCalled("reverse_bits")
    /\ bsarr' = reverse_bits(bsarr)
    /\ bsop' = Append(bsop, Call("reverse_bits", 0))
    /\ bsret' = Append(bsret, Value(<<bsarr'>>))
    /\ UNCHANGED <<bsin, bchvars, rsvars, impvars, parsevars, fieldvars, fecvars, helpvars>>

\* de_interleave(bits, step)
DeInterleave(step) ==
    /\ bsop = <<>>
    /\ bsop' = <<Call("de_interleave", step)>>
    /\ bsret' = <<Value(de_interleave(bsarr, step))>>
    /\ UNCHANGED <<bsin, bsarr, bchvars, rsvars, impvars, parsevars, fieldvars, fecvars, helpvars>>

\* de_interleave3(bits)
DeInterleave3 ==
    /\ bsop = <<>>
    /\ bsop' = <<Call("de_interleave3", 0)>>
    /\ bsret' = <<Value(de_interleave3(bsarr))>>
    /\ UNCHANGED <<bsin, bsarr, bchvars, rsvars, impvars, parsevars, fieldvars, fecvars, helpvars>>

\* checksum_16(data); the checksum is kept as an array of one element
Checksum16 ==
    /\ Len(bsop) < 2 /\ OnlyCalled("checksum_16")
    /\ bsop' = Append(bsop, Call("checksum_16", 0))
    /\ LET c == checksum_16(bsarr)
       IN  bsret' = Append(bsret, IF c.exc = "none" THEN Value(<< <<c.val>> >>)
                                  ELSE Raise(c.exc))
    /\ UNCHANGED <<bsin, bsarr, bchvars, rsvars, impvars, parsevars, fieldvars, fecvars, helpvars>>

\* bit k of element i of the array is flipped between two checksums
FlipOne(i, k) ==
    /\ Len(bsop) = 1 /\ OnlyCalled("checksum_16") /\ bsarr = bsin
    /\ i \in 1..Len(bsarr)
    /\ bsarr' = [bsarr EXCEPT ![i] = FlipBit(bsarr[i], k)]
    /\ UNCHANGED <<bsin, bsop, bsret, bchvars, rsvars, impvars, parsevars, fieldvars, fecvars, helpvars>>

BitsNext ==
    \/ ReverseBits
    \/ \E step \in 1..MaxStep : DeInterleave(step)
    \/ DeInterleave3
    \/ Checksum16
    \/ \E i \in 1..MaxArr : \E k \in 0..7 : FlipOne(i, k)

----------------------------------------------------------------------------
(* bitsparser.py: Message.parse_line and parse_input.  A text is the       *)
(* sequence of its characters.  An input line is the record of the fields  *)
(* that the pattern separates: the direction tag (group 1), the timestamp  *)
(* (group 3), the level (group 10) and the bits (group 12); the other      *)
(* fields of the line are well formed.  A float is its kind ("num", "inf"  *)
(* or "nan") and, for a number, its value in millionths.                   *)

Digits == {"0", "1", "2", "3", "4", "5", "6", "7", "8", "9"}

DigitValue ==
    "0" :> 0 @@ "1" :> 1 @@ "2" :> 2 @@ "3" :> 3 @@ "4" :> 4 @@ "5" :> 5 @@
    "6" :> 6 @@ "7" :> 7 @@ "8" :> 8 @@ "9" :> 9

\* the characters of t are all in cs
CharsIn(t, cs) == \A i \in 1..Len(t) : t[i] \in cs

\* [\d.]+
MatchesNumber(t) == Len(t) >= 1 /\ CharsIn(t, Digits \cup {"."})

\* -?[\d.]+ (group 3)
MatchesTimestamp(t) ==
    \/ MatchesNumber(t)
    \/ Len(t) >= 2 /\ t[1] = "-" /\ MatchesNumber(Tail(t))

\* [\d.]+|inf|nan (group 10)
MatchesLevel(t) == MatchesNumber(t) \/ t = <<"i", "n", "f">> \/ t = <<"n", "a", "n">>

\* [\[\]<> 01]+ (group 12)
MatchesBits(t) == Len(t) >= 1 /\ CharsIn(t, {"[", "]", "<", ">", " ", "0", "1"})

\* pattern.match(line)
PatternMatches(line) ==
    /\ line.tag \in {"RAW", "RWA"}
    /\ MatchesTimestamp(line.ts)
    /\ MatchesLevel(line.level)
    /\ MatchesBits(line.bits)

\* a float
Num(micro) == [kind |-> "num", micro |-> micro]
Inf == [kind |-> "inf", micro |-> 0]
NaN == [kind |-> "nan", micro |-> 0]

\* the number written by the digits t[lo..hi]
RECURSIVE DecimalValue(_, _, _)
DecimalValue(t, lo, hi) ==
    IF lo > hi THEN 0 ELSE 10 * DecimalValue(t, lo, hi - 1) + DigitValue[t[hi]]

\* float(t) for a text of digits and points: ValueError unless it has at
\* least one digit and at most one point; digits after the sixth decimal are
\* dropped
float_unsigned(t) ==
    LET points == {i \in 1..Len(t) : t[i] = "."}
    IN  IF Cardinality(points) > 1 \/ Cardinality(points) = Len(t)
        THEN Raise("ValueError")
        ELSE LET p == IF points = {} THEN Len(t) + 1 ELSE CHOOSE i \in points : TRUE
                 decimals == IF Len(t) - p > 6 THEN 6 ELSE IF Len(t) > p THEN Len(t) - p ELSE 0
             IN  Value(Num(DecimalValue(t, 1, p - 1) * 1000000
                           + DecimalValue(t, p + 1, p + decimals)
                             * Pow10(6 - decimals)))

\* float(t) for a text that group 3 or group 10 matched
float(t) ==
    IF t = <<"i", "n", "f">> THEN Value(Inf)
    ELSE IF t = <<"n", "a", "n">> THEN Value(NaN)
    ELSE IF t[1] = "-"
         THEN LET f == float_unsigned(Tail(t))
              IN  IF f.exc # "none" THEN f ELSE Value(Num(0 - f.val.micro))
         ELSE float_unsigned(t)

\* a > b on floats: every comparison with nan is False
Greater(a, b) ==
    /\ a.kind # "nan" /\ b.kind # "nan"
    /\ \/ a.kind = "inf" /\ b.kind = "num"
       \/ a.kind = "num" /\ b.kind = "num" /\ a.micro > b.micro

\* max(a, b): the first argument unless the second is greater
max(a, b) == IF Greater(b, a) THEN b ELSE a

\* the number of decimal digits of n >= 1, less one
RECURSIVE FloorLog10(_)
FloorLog10(n) == IF n < 10 THEN 0 ELSE 1 + FloorLog10(n \div 10)

\* 20 * log(x, 10): nan for nan, inf for inf, ValueError for x <= 0; a finite
\* result is kept as the multiple of 20 at or below it (micro holds it in
\* millionths)
level_db_of(x) ==
    IF x.kind = "nan" THEN Value(NaN)
    ELSE IF x.kind = "inf" THEN Value(Inf)
    ELSE IF x.micro <= 0 THEN Raise("ValueError")
    ELSE Value(Num(20 * (FloorLog10(x.micro) - 6) * 1000000))

\* re.sub(r"[\[\]<> ]", "", text), then [int(bit) for bit in bitstream]
RECURSIVE bits_of(_)
bits_of(t) ==
    IF t = <<>> THEN <<>>
    ELSE IF t[1] \in {"0", "1"} THEN <<DigitValue[t[1]]>> \o bits_of(Tail(t))
    ELSE bits_of(Tail(t))

\* Message(line): parse_line(line), the fields it sets or the exception
parse_line(line) ==
    IF ~PatternMatches(line) THEN Raise("ParserError")
    ELSE LET swapped == line.tag = "RAW"
             timestamp == float(line.ts)
             level == float(line.level)
             bitstream == bits_of(line.bits)
         IN  IF timestamp.exc # "none" THEN Raise(timestamp.exc)
             ELSE IF level.exc # "none" THEN Raise(level.exc)
             ELSE LET floored == max(level.val, Num(1))
                      db == level_db_of(floored)
                  IN  IF db.exc # "none" THEN Raise(db.exc)
                      ELSE Value([swapped |-> swapped,
                                  timestamp |-> timestamp.val,
                                  level |-> floored,
                                  level_db |-> db.val,
                                  bitstream |-> IF swapped THEN reverse_bits(bitstream)
                                                ELSE bitstream])

\* for line in lines[i..]: try: messages.append(Message(line))
\*                         except ParserError: print(...)
\* st holds the messages, the lines reported on stderr and the exception that
\* left the loop
RECURSIVE parse_input_loop(_, _, _)
parse_input_loop(st, lines, i) ==
    IF i > Len(lines) \/ st.exc # "none" THEN st
    ELSE LET m == parse_line(lines[i])
         IN  parse_input_loop(
                 IF m.exc = "none"
                 THEN [st EXCEPT !.messages = Append(st.messages, m.val)]
                 ELSE IF m.exc = "ParserError"
                      THEN [st EXCEPT !.reported = Append(st.reported, i)]
                      ELSE [st EXCEPT !.exc = m.exc],
                 lines, i + 1)

\* parse_input(input_file) on the lines of the file: the messages returned
\* (none when an exception leaves the function) and the lines reported
parse_input(lines) ==
    LET st == parse_input_loop([messages |-> <<>>, reported |-> <<>>, exc |-> "none"],
                               lines, 1)
    IN  [exc |-> st.exc,
         messages |-> IF st.exc = "none" THEN st.messages ELSE <<>>,
         reported |-> st.reported]

----------------------------------------------------------------------------
(* The parser of bitsparser.py as a state machine: a file of lines is      *)
(* handed to parse_input, or one line to Message.                          *)

\* the texts of the fields of the input lines
Tags == {"RAW", "RWA", "ERR"}
TimestampTexts == {<<"1", ".", "5">>, <<"1", ".", "2", ".", "3">>}
LevelTexts ==
    {<<"0">>, <<"0", ".", "0", "0", "1">>, <<"1", "0">>, <<"i", "n", "f">>, <<"n", "a", "n">>}
BitsTexts ==
    {<<"[", "0", "1", "]">>, <<"1", "0", "0", "0", "0", "0", "0", "0", " ", "1">>}

\* a record whose fields all convert
WellFormed(tag) ==
    [tag |-> tag, ts |-> <<"1", ".", "5">>, level |-> <<"1", "0">>,
     bits |-> <<"[", "0", "1", "]">>]

\* the input lines: the records of a known direction tag that differ from a
\* well-formed one in at most one field, and the well-formed record of an
\* unknown tag
LineForms ==
    {l \in [tag : Tags, ts : TimestampTexts, level : LevelTexts, bits : BitsTexts] :
        LET w == WellFormed(l.tag)
            differing == {f \in {"ts", "level", "bits"} : l[f] # w[f]}
        IN  Cardinality(differing) <= (IF l.tag = "ERR" THEN 0 ELSE 1)}

\* the files: up to MaxLines lines
RECURSIVE FilesOfLen(_)
FilesOfLen(n) ==
    IF n = 0 THEN {<<>>}
    ELSE {Append(f, l) : f \in FilesOfLen(n - 1), l \in LineForms}

Files == UNION {FilesOfLen(n) : n \in 0..MaxLines}

\* no call was made
NoParse == [op |-> "", exc |-> "none", messages |-> <<>>, reported |-> <<>>]

ParseInit ==
    /\ infile \in Files
    /\ parsed = NoParse

\* parse_input(input_file)
ParseInput ==
    /\ parsed = NoParse
    /\ LET r == parse_input(infile)
       IN  parsed' = [op |-> "parse_input", exc |-> r.exc,
                      messages |-> r.messages, reported |-> r.reported]
    /\ UNCHANGED <<infile, bchvars, rsvars, impvars, bitsvars, fieldvars, fecvars, helpvars>>

\* Message(line) on the line of a one-line file
NewMessage ==
    /\ parsed = NoParse /\ Len(infile) = 1
    /\ LET m == parse_line(infile[1])
       IN  parsed' = [op |-> "Message", exc |-> m.exc,
                      messages |-> IF m.exc = "none" THEN <<m.val>> ELSE <<>>,
                      reported |-> <<>>]
    /\ UNCHANGED <<infile, bchvars, rsvars, impvars, bitsvars, fieldvars, fecvars, helpvars>>

ParseNext == ParseInput \/ NewMessage

----------------------------------------------------------------------------
(* The encoder of fec.py as a state machine: set_poly, set_initbb and fec  *)
(* are called in any order; each call is recorded with the globals it      *)
(* found.                                                                  *)

FecGlobals == [p1 |-> p1, p2 |-> p2, initbb |-> initbb]

\* the state after import of fec
FecImport ==
    /\ p1 = fec_import.p1
    /\ p2 = fec_import.p2
    /\ initbb = fec_import.initbb
    /\ fcalls = <<>>

\* the bit sequences of up to n bits
BitSeqs(n) == UNION {[1..k -> {0, 1}] : k \in 0..n}

\* the pairs of polynomials handed to set_poly: the two of the module, in
\* both orders, a pair of 9 bits and a pair of 9 and 7 bits
FecPolys == {<<POLYA, POLYB>>, <<POLYB, POLYA>>, <<365, 335>>, <<365, POLYB>>}

\* the buffers handed to set_initbb
FecBuffers == {Zeros(7), <<1, 0, 0, 0, 0, 0, 1>>, Zeros(9), Zeros(6)}

\* call f with arguments a ended with exception exc or returned val
FecCalled(f, a, exc, val) ==
    fcalls' = Append(fcalls, [f |-> f, a |-> a, exc |-> exc, val |-> val,
                              g |-> FecGlobals])

\* set_poly(pa, pb)
SetPoly(pa, pb) ==
    /\ Len(fcalls) < MaxFecCalls
    /\ LET r == set_poly(FecGlobals, pa, pb)
       IN  /\ p1' = r.g.p1
           /\ p2' = r.g.p2
           /\ initbb' = r.g.initbb
           /\ FecCalled("set_poly", <<pa, pb>>, r.exc, <<>>)
    /\ UNCHANGED <<bchvars, rsvars, impvars, bitsvars, parsevars, fieldvars, helpvars>>

\* set_initbb(buffer)
SetInitbb(buffer) ==
    /\ Len(fcalls) < MaxFecCalls
    /\ LET r == set_initbb(FecGlobals, buffer)
       IN  /\ p1' = r.g.p1
           /\ p2' = r.g.p2
           /\ initbb' = r.g.initbb
           /\ FecCalled("set_initbb", buffer, r.exc, <<>>)
    /\ UNCHANGED <<bchvars, rsvars, impvars, bitsvars, parsevars, fieldvars, helpvars>>

\* fec(bits)
Fec(bits) ==
    /\ Len(fcalls) < MaxFecCalls
    /\ LET r == fec(FecGlobals, bits)
       IN  FecCalled("fec", bits, r.exc, r.val)
    /\ UNCHANGED <<p1, p2, initbb>>
    /\ UNCHANGED <<bchvars, rsvars, impvars, bitsvars, parsevars, fieldvars, helpvars>>

FecNext ==
    \/ \E pp \in FecPolys : SetPoly(pp[1], pp[2])
    \/ \E buffer \in FecBuffers : SetInitbb(buffer)
    \/ \E bits \in BitSeqs(MaxFecBits) : Fec(bits)

----------------------------------------------------------------------------
(* The functions without state as a state machine: one of them is called   *)
(* once, on arguments drawn from the sets below.                           *)

NoHelp == [f |-> "", a |-> <<>>, exc |-> "none", val |-> <<>>]

HelpIdle == hcall = NoHelp

\* the schedules handed to puncture: the patterns of the module and two
\* shorter ones
Schedules == {patterns[n] : n \in DOMAIN patterns} \cup {<<1>>, <<0, 1>>}

\* the generator polynomials handed to the division: the small ones and
\* those of the configurations of init()
DivPolys == (1..MaxPoly) \cup {Configs[i][1] : i \in 1..Len(Configs)}

\* the coefficient lists handed to gf_poly_add
PolyLists == UNION {[1..k -> {0, 1, 6}] : k \in 0..MaxPolyLen}

Helped(f, a, r) ==
    /\ hcall = NoHelp
    /\ hcall' = [f |-> f, a |-> a, exc |-> r.exc, val |-> r.val]
    /\ UNCHANGED <<bchvars, rsvars, impvars, bitsvars, parsevars, fieldvars, fecvars>>

\* puncture(dp, bits)
Puncture(dp, bits) == Helped("puncture", <<dp, bits>>, puncture(dp, bits))

\* nndivide(poly, num), ndivide(poly, bits) and divide(a, bits), where bits
\* is num and a is poly, written in binary after pad zeros
Divide(poly, num, pad) ==
    LET bits == Zeros(pad) \o format_b(num, 1)
        a == Zeros(pad) \o format_b(poly, 1)
    IN  Helped("divide", <<poly, num, pad>>,
               Value(<<nndivide(poly, num), ndivide(poly, bits), divide(a, bits)>>))

\* gf_poly_add(p, q) of reedsolo and of reedsolo6
PolyAdd(p, q) ==
    Helped("gf_poly_add", <<p, q>>,
           Value(<<gf_poly_add(p, q), reedsolo6_gf_poly_add(p, q)>>))

PunctureNext ==
    hcall = NoHelp /\ \E dp \in Schedules : \E bits \in BitSeqs(MaxPunctBits) : Puncture(dp, bits)

DivideNext ==
    hcall = NoHelp /\ \E poly \in DivPolys : \E num \in 0..MaxNum : \E pad \in 0..MaxPad :
        Divide(poly, num, pad)

PolyAddNext ==
    hcall = NoHelp /\ \E p \in PolyLists : \E q \in PolyLists : PolyAdd(p, q)

----------------------------------------------------------------------------
(* The import of bch.py as a state machine: init() calls mk_syn once per   *)
(* configuration, and each step is one iteration of a loop of mk_syn.      *)

\* init() has returned
BuildDone == [i |-> Len(Configs) + 1, phase |-> "done", n1 |-> 0, n2 |-> 0, syn |-> -1]

\* init() is about to make its i-th call of mk_syn
BuildCall(i) ==
    IF i > Len(Configs) THEN BuildDone
    ELSE [i |-> i, phase |-> "call", n1 |-> 0, n2 |-> 0, syn |-> -1]

\* the position after the iteration n1 of the first loop of the i-th call
AfterSingle(i, n1, r) ==
    LET bits == Configs[i][2]
    IN  IF n1 + 1 < bits
        THEN [i |-> i, phase |-> "single", n1 |-> n1 + 1, n2 |-> 0, syn |-> r]
        ELSE IF Configs[i][4] >= 2 /\ bits >= 2
             THEN [i |-> i, phase |-> "pair", n1 |-> 0, n2 |-> 1, syn |-> r]
             ELSE BuildCall(i + 1)

\* the position after the iteration (n1, n2) of the nested loops
AfterPair(i, n1, n2, r) ==
    LET bits == Configs[i][2]
    IN  IF n2 + 1 < bits
        THEN [i |-> i, phase |-> "pair", n1 |-> n1, n2 |-> n2 + 1, syn |-> r]
        ELSE IF n1 + 2 < bits
             THEN [i |-> i, phase |-> "pair", n1 |-> n1 + 1, n2 |-> n1 + 2, syn |-> r]
             ELSE BuildCall(i + 1)

\* syndromes = {} (bch.py:7), and init() is called (bch.py:110-113)
ImportBch ==
    /\ syndromes = <<>>
    /\ mkexc = "none"
    /\ mkargs = <<>>
    /\ cfg = NoCfg
    /\ cw = <<>>
    /\ word = <<>>
    /\ flips = {}
    /\ res = NoRes
    /\ build = BuildCall(1)

\* mk_syn is entered: the assertion, and syndromes[poly] = [None] * 2 ** synbits
InitCall ==
    /\ build.phase = "call" /\ mkexc = "none"
    /\ LET c == Configs[build.i]
       IN  IF c[4] \notin {1, 2, 3}
           THEN /\ mkexc' = "AssertionError"
                /\ UNCHANGED <<syndromes, build>>
           ELSE /\ syndromes' = SetTable(syndromes, c[1], NoneList(Pow2(c[3])))
                /\ build' = IF c[2] >= 1
                            THEN [build EXCEPT !.phase = "single"]
                            ELSE BuildCall(build.i + 1)
                /\ UNCHANGED mkexc
    /\ UNCHANGED <<mkargs, cfg, cw, word, flips, res, rsvars, bitsvars, parsevars, fieldvars, fecvars, helpvars>>

\* one iteration of the first loop: syndromes[poly][r] = (1, val)
InitSingle ==
    /\ build.phase = "single" /\ mkexc = "none"
    /\ LET c == Configs[build.i]
           st == mk_syn_single([tab |-> syndromes[c[1]], exc |-> "none"],
                               c[1], build.n1, build.n1)
           r == nndivide(c[1], Shl(1, build.n1))
       IN  /\ syndromes' = SetTable(syndromes, c[1], st.tab)
           /\ mkexc' = st.exc
           /\ build' = IF st.exc = "none" THEN AfterSingle(build.i, build.n1, r)
                       ELSE [build EXCEPT !.syn = r]
    /\ UNCHANGED <<mkargs, cfg, cw, word, flips, res, rsvars, bitsvars, parsevars, fieldvars, fecvars, helpvars>>

\* one iteration of the nested loops: the slot is set to (2, val) if it is None
InitPair ==
    /\ build.phase = "pair" /\ mkexc = "none"
    /\ LET c == Configs[build.i]
           st == mk_syn_pair_inner([tab |-> syndromes[c[1]], exc |-> "none"],
                                   c[1], build.n1, build.n2, build.n2)
           r == nndivide(c[1], BitOr(Shl(1, build.n1), Shl(1, build.n2)))
       IN  /\ syndromes' = SetTable(syndromes, c[1], st.tab)
           /\ mkexc' = st.exc
           /\ build' = IF st.exc = "none"
                       THEN AfterPair(build.i, build.n1, build.n2, r)
                       ELSE [build EXCEPT !.syn = r]
    /\ UNCHANGED <<mkargs, cfg, cw, word, flips, res, rsvars, bitsvars, parsevars, fieldvars, fecvars, helpvars>>

\* the variables of the modules that are not in the BCH and Reed-Solomon
\* state machines, after import
\* no helper of bitsparser was called
BitsIdle ==
    /\ bsin = <<>>
    /\ bsarr = <<>>
    /\ bsop = <<>>
    /\ bsret = <<>>

\* no file was handed to the parser of bitsparser
ParseIdle ==
    /\ infile = <<>>
    /\ parsed = NoParse

\* no field table was built and no field function called by a caller
NoFieldInit == [mod |-> "", prim |-> 0, generator |-> 0, m |-> 0, exc |-> "none"]
NoFieldCall == [f |-> "", x |-> 0, y |-> 0, exc |-> "none", val |-> <<>>]

FieldIdle ==
    /\ gfinit = NoFieldInit
    /\ gfcall = NoFieldCall

ExtInit ==
    /\ build = BuildDone
    /\ BitsIdle
    /\ ParseIdle
    /\ FieldIdle
    /\ FecImport
    /\ HelpIdle

----------------------------------------------------------------------------
(* The Reed-Solomon modules as a state machine: codecs are made, tables    *)
(* initialised and the wrappers imported; a call is made on a message or   *)
(* on a received frame and returns.                                        *)

\* no call is in progress or returned
NoOut == [op |-> "", exc |-> "none", flag |-> "", msg |-> <<>>, ecc |-> <<>>]
NoData == Bytes("", <<>>)

\* the tables init_gf() builds with its default arguments
DefaultTables == init_gf(285, 2, 256).val

Kinds == {"bytearray", "list"}

\* the messages handed to the codecs
RsMsgs == UNION {[1..n -> 0..MaxSym] : n \in 1..MaxMsgLen}

\* the numbers of parity symbols the codecs are asked for
NsymChoices == (0..MaxNsym) \cup {NSYM + ELEN, NSYM6 + ELEN6}

\* the sets of at most MaxErr positions of a frame of n symbols
ErrSets(n) == {{}} \cup {{s[i] : i \in 1..MaxErr} : s \in [1..MaxErr -> 1..n]}

\* s with the symbols at the positions in e changed
Corrupt(s, e) == [i \in 1..Len(s) |-> IF i \in e THEN BitXor(s[i], 1) ELSE s[i]]

\* the frame a sender makes of message m: m and the first keep of the nsym
\* parity symbols that rs_encode_msg computes on initialised tables
Sent(m, nsym, keep) ==
    PyPrefix(rs_encode_msg(DefaultTables, Bytes("bytearray", m), nsym).val.val,
             Len(m) + keep)

\* the all-zero frame of k message and nsym parity symbols
ZeroFrame(k, nsym) == Zeros(k + nsym)

RsInit ==
    /\ gf = [GF_EXP |-> NoTable, GF_LOG |-> NoTable, FIELD_SIZE |-> 0]
    /\ gf6 = reedsolo6_globals
    /\ codec = -1
    /\ codec6 = <<-1, 0>>
    /\ imported = [rs |-> "", rs6 |-> ""]
    /\ setups = 0
    /\ arg = NoData
    /\ frame = NoData
    /\ clean = <<>>
    /\ out = NoOut

\* the state after import of bch, reedsolo and reedsolo6
Init == BchInit /\ RsInit /\ ExtInit

\* a call on frame f: what it returned and what it left of the frame
Called(f, c, d, o) ==
    /\ frame' = f
    /\ clean' = c
    /\ arg' = d
    /\ out' = o

Idle == out = NoOut /\ res = NoRes /\ cfg = NoCfg

\* import rs
ImportRs ==
    /\ Idle /\ setups < MaxSetup /\ imported.rs = ""
    /\ imported' = [imported EXCEPT !.rs = rs_import]
    /\ setups' = setups + 1
    /\ UNCHANGED <<bchvars, extvars, gf, gf6, codec, codec6, arg, frame, clean, out>>

\* import rs6
ImportRs6 ==
    /\ Idle /\ setups < MaxSetup /\ imported.rs6 = ""
    /\ imported' = [imported EXCEPT !.rs6 = rs6_import]
    /\ setups' = setups + 1
    /\ UNCHANGED <<bchvars, extvars, gf, gf6, codec, codec6, arg, frame, clean, out>>

\* reedsolo.RSCodec(nsym)
NewCodec(nsym) ==
    /\ Idle /\ setups < MaxSetup
    /\ codec' = nsym
    /\ gf' = DefaultTables
    /\ setups' = setups + 1
    /\ UNCHANGED <<bchvars, extvars, gf6, codec6, imported, arg, frame, clean, out>>

\* reedsolo.rs_encode_msg(msg, nsym), called directly
EncodeMsg(msg, nsym) ==
    /\ Idle
    /\ LET r == rs_encode_msg(gf, msg, nsym)
       IN  Called(msg, <<>>, msg,
                  [NoOut EXCEPT !.op = "reedsolo.rs_encode_msg", !.exc = r.exc,
                                !.msg = IF r.exc = "none" THEN r.val.val ELSE <<>>])
    /\ UNCHANGED <<bchvars, extvars, gf, gf6, codec, codec6, imported, setups>>

\* RSCodec.encode(data)
CodecEncode(msg) ==
    /\ Idle /\ codec >= 0
    /\ LET r == rs_encode_msg(gf, msg, codec)
       IN  Called(msg, <<>>, msg,
                  [NoOut EXCEPT !.op = "reedsolo.encode", !.exc = r.exc,
                                !.msg = IF r.exc = "none" THEN r.val.val ELSE <<>>])
    /\ UNCHANGED <<bchvars, extvars, gf, gf6, codec, codec6, imported, setups>>

\* RSCodec.decode(data), data a sent frame with the symbols in e corrupted
CodecDecode(kind, m, e) ==
    /\ Idle /\ codec >= 0
    /\ LET c == Sent(m, codec, codec)
           f == Bytes(kind, Corrupt(c, e))
           r == rs_correct_msg(f, codec)
       IN  Called(f, c, f,
                  [NoOut EXCEPT !.op = "reedsolo.decode", !.exc = r.exc,
                                !.msg = IF r.exc = "none" THEN r.val[1] ELSE <<>>,
                                !.ecc = IF r.exc = "none" THEN r.val[2] ELSE <<>>])
    /\ UNCHANGED <<bchvars, extvars, gf, gf6, codec, codec6, imported, setups>>

\* reedsolo6.init_tables(prim, generator, field_exp), called directly
InitTables6(prim, generator, field_exp) ==
    /\ Idle /\ setups < MaxSetup
    /\ LET r == init_tables(prim, generator, field_exp)
       IN  /\ gf6' = r.val
           /\ Called(NoData, <<>>, NoData,
                     [NoOut EXCEPT !.op = "reedsolo6.init_tables", !.exc = r.exc])
    /\ setups' = setups + 1
    /\ UNCHANGED <<bchvars, extvars, gf, codec, codec6, imported>>

\* reedsolo6.RSCodec(nsym, prim, generator): no codec when init_tables raises
NewCodec6(nsym, prim, generator) ==
    /\ Idle /\ setups < MaxSetup
    /\ LET r == init_tables(prim, generator, 8)
       IN  /\ gf6' = r.val
           /\ codec6' = IF r.exc = "none" THEN <<nsym, generator>> ELSE codec6
           /\ Called(NoData, <<>>, NoData,
                     [NoOut EXCEPT !.op = "reedsolo6.RSCodec", !.exc = r.exc])
    /\ setups' = setups + 1
    /\ UNCHANGED <<bchvars, extvars, gf, codec, imported>>

\* reedsolo6.rs_encode_msg(msg, nsym, gen=gen), called directly
EncodeMsg6(msg, nsym, gen) ==
    /\ Idle
    /\ LET r == reedsolo6_rs_encode_msg(gf6, msg, nsym, 2, gen)
       IN  Called(msg, <<>>, msg,
                  [NoOut EXCEPT !.op = "reedsolo6.rs_encode_msg", !.exc = r.exc,
                                !.msg = IF r.exc = "none" THEN r.val.val ELSE <<>>])
    /\ UNCHANGED <<bchvars, extvars, gf, gf6, codec, codec6, imported, setups>>

\* reedsolo6 RSCodec.encode(data)
Codec6Encode(msg) ==
    /\ Idle /\ codec6[1] >= 0
    /\ LET r == reedsolo6_rs_encode_msg(gf6, msg, codec6[1], codec6[2], <<>>)
       IN  Called(msg, <<>>, msg,
                  [NoOut EXCEPT !.op = "reedsolo6.encode", !.exc = r.exc,
                                !.msg = IF r.exc = "none" THEN r.val.val ELSE <<>>])
    /\ UNCHANGED <<bchvars, extvars, gf, gf6, codec, codec6, imported, setups>>

\* reedsolo6 RSCodec.decode(data), data the all-zero frame with the symbols in
\* e corrupted
Codec6Decode(kind, k, e) ==
    /\ Idle /\ codec6[1] >= 0
    /\ LET c == ZeroFrame(k, codec6[1])
           f == Bytes(kind, Corrupt(c, e))
           r == rs_decode_msg(f, codec6[1], codec6[2])
       IN  Called(f, c, f,
                  [NoOut EXCEPT !.op = "reedsolo6.decode", !.exc = r.exc,
                                !.msg = IF r.exc = "none" THEN r.val[1] ELSE <<>>,
                                !.ecc = IF r.exc = "none" THEN r.val[2] ELSE <<>>])
    /\ UNCHANGED <<bchvars, extvars, gf, gf6, codec, codec6, imported, setups>>

\* the value o of rs_check or rs_fix of module op, called on frame f
Wrapped(op, f, c, o) ==
    Called(f, c, o.data,
           [op |-> op, exc |-> o.exc, flag |-> o.flag, msg |-> o.msg, ecc |-> o.ecc])

\* rs.rs_check(data), data a sent frame with the symbols in e corrupted
RsCheck(kind, m, e) ==
    /\ Idle
    /\ LET c == Sent(m, NSYM + ELEN, NSYM)
           f == Bytes(kind, Corrupt(c, e))
       IN  Wrapped("rs.rs_check", f, c, rs_check(gf, f))
    /\ UNCHANGED <<bchvars, extvars, gf, gf6, codec, codec6, imported, setups>>

\* rs.rs_fix(data), data a sent frame with the symbols in e corrupted
RsFix(kind, m, e) ==
    /\ Idle
    /\ LET c == Sent(m, NSYM + ELEN, NSYM)
           f == Bytes(kind, Corrupt(c, e))
       IN  Wrapped("rs.rs_fix", f, c, rs_fix(f))
    /\ UNCHANGED <<bchvars, extvars, gf, gf6, codec, codec6, imported, setups>>

\* rs6.rs_check(data), data the all-zero frame with the symbols in e corrupted
Rs6Check(kind, k, e) ==
    /\ Idle
    /\ LET c == ZeroFrame(k, NSYM6)
           f == Bytes(kind, Corrupt(c, e))
       IN  Wrapped("rs6.rs_check", f, c, rs6_rs_check(gf6, f))
    /\ UNCHANGED <<bchvars, extvars, gf, gf6, codec, codec6, imported, setups>>

\* rs6.rs_fix(data), data the all-zero frame with the symbols in e corrupted
Rs6Fix(kind, k, e) ==
    /\ Idle
    /\ LET c == ZeroFrame(k, NSYM6)
           f == Bytes(kind, Corrupt(c, e))
       IN  Wrapped("rs6.rs_fix", f, c, rs6_rs_fix(f))
    /\ UNCHANGED <<bchvars, extvars, gf, gf6, codec, codec6, imported, setups>>

\* the caller takes the result; the next call may be made
RsReturn ==
    /\ out # NoOut
    /\ Called(NoData, <<>>, NoData, NoOut)
    /\ UNCHANGED <<bchvars, extvars, gf, gf6, codec, codec6, imported, setups>>

RsSetup ==
    \/ ImportRs
    \/ ImportRs6
    \/ \E nsym \in NsymChoices : NewCodec(nsym)
    \/ \E nsym \in NsymChoices : \E prim \in {PRIM, PRIM6} : NewCodec6(nsym, prim, 2)
    \/ InitTables6(PRIM6, GENERATOR6, C_EXP6)

RsCalls ==
    \/ \E kind \in Kinds : \E m \in RsMsgs : \E nsym \in NsymChoices :
           EncodeMsg(Bytes(kind, m), nsym)
    \/ \E kind \in Kinds : \E m \in RsMsgs : CodecEncode(Bytes(kind, m))
    \/ \E kind \in Kinds : \E m \in RsMsgs : \E e \in ErrSets(Len(m) + codec) :
           CodecDecode(kind, m, e)
    \/ \E kind \in Kinds : \E m \in RsMsgs : \E nsym \in NsymChoices :
           \E gen \in {<<>>, <<1, 1>>} : EncodeMsg6(Bytes(kind, m), nsym, gen)
    \/ \E kind \in Kinds : \E m \in RsMsgs : Codec6Encode(Bytes(kind, m))
    \/ \E kind \in Kinds : \E k \in 1..MaxMsgLen : \E e \in ErrSets(k + codec6[1]) :
           Codec6Decode(kind, k, e)

RsWrappers ==
    \/ \E kind \in Kinds : \E m \in RsMsgs : \E e \in ErrSets(Len(m) + NSYM) :
           RsCheck(kind, m, e)
    \/ \E kind \in Kinds : \E m \in RsMsgs : \E e \in ErrSets(Len(m) + NSYM) :
           RsFix(kind, m, e)
    \/ \E kind \in Kinds : \E k \in 1..MaxMsgLen : \E e \in ErrSets(k + NSYM6) :
           Rs6Check(kind, k, e)
    \/ \E kind \in Kinds : \E k \in 1..MaxMsgLen : \E e \in ErrSets(k + NSYM6) :
           Rs6Fix(kind, k, e)

\* the Reed-Solomon modules
RsNext == RsSetup \/ RsCalls \/ RsWrappers \/ RsReturn
SpecRS == Init /\ [][RsNext]_vars

----------------------------------------------------------------------------
(* The field arithmetic of reedsolo.py and reedsolo6.py as a state         *)
(* machine: the tables of one module are built with given parameters, and  *)
(* one function of the module is called on them.                           *)

\* mutant of gf_div: the test of x comes before the test of y
gf_div_dividend_first(g, x, y) ==
    IF x = 0 THEN Value(0)
    ELSE IF y = 0 THEN Raise("ZeroDivisionError")
    ELSE Value(g.GF_EXP[(g.GF_LOG[x] - g.GF_LOG[y] + g.FIELD_SIZE) % g.FIELD_SIZE])

\* gf_div(x, y) on tables g (reedsolo.py:55-60)
gf_div(g, x, y) ==
    IF y = 0 THEN Raise("ZeroDivisionError")
    ELSE IF x = 0 THEN Value(0)
    ELSE Value(g.GF_EXP[(g.GF_LOG[x] - g.GF_LOG[y] + g.FIELD_SIZE) % g.FIELD_SIZE])

\* the two fields: <<primitive polynomial, symbol width>>
Fields == {<<PRIM, C_EXP>>, <<PRIM6, C_EXP6>>}

\* the generators passed: 2 and 4 are primitive elements of both fields
Generators == {2, 4}

\* the elements handed to a function on tables g: those the tables have an
\* entry for
Elements(g) == IF g.GF_LOG = NoTable THEN {0, 1} ELSE DOMAIN g.GF_LOG

\* the second operands: every element of the small field, a sample of the
\* large one
Operands(g) ==
    IF g.GF_LOG = NoTable THEN {0, 1}
    ELSE IF g.FIELD_SIZE < 64 THEN DOMAIN g.GF_LOG
    ELSE {0, 1, 2, 3, 29, 142, 255}

\* subscripting GF_EXP or GF_LOG while it is None raises TypeError
Subscript(g, v) == IF g.GF_LOG = NoTable THEN Raise("TypeError") ELSE v

\* reedsolo.init_gf(prim, generator, 2 ** m)
FieldInitGf(prim, generator, m) ==
    /\ gfinit = NoFieldInit /\ gfcall = NoFieldCall
    /\ LET r == init_gf(prim, generator, Pow2(m))
       IN  /\ gf' = r.val
           /\ gfinit' = [mod |-> "reedsolo", prim |-> prim, generator |-> generator,
                         m |-> m, exc |-> r.exc]
    /\ UNCHANGED <<gfcall, bchvars, gf6, codec, codec6, imported, setups, frame,
                   clean, arg, out, impvars, bitsvars, parsevars, fecvars, helpvars>>

\* reedsolo6.init_tables(prim, generator, m)
FieldInitTables(prim, generator, m) ==
    /\ gfinit = NoFieldInit /\ gfcall = NoFieldCall
    /\ LET r == init_tables(prim, generator, m)
       IN  /\ gf6' = r.val
           /\ gfinit' = [mod |-> "reedsolo6", prim |-> prim, generator |-> generator,
                         m |-> m, exc |-> r.exc]
    /\ UNCHANGED <<gfcall, bchvars, gf, codec, codec6, imported, setups, frame,
                   clean, arg, out, impvars, bitsvars, parsevars, fecvars, helpvars>>

\* a call of function f on x and y: what it returned or raised
FieldCalled(f, x, y, r) ==
    /\ gfcall = NoFieldCall
    /\ gfcall' = [f |-> f, x |-> x, y |-> y, exc |-> r.exc, val |-> r.val]
    /\ UNCHANGED <<gfinit, bchvars, rsvars, impvars, bitsvars, parsevars, fecvars, helpvars>>

\* reedsolo.gf_mul(x, y)
FieldGfMul(x, y) ==
    /\ gfinit.mod # "reedsolo6"
    /\ FieldCalled("reedsolo.gf_mul", x, y,
                   IF x = 0 \/ y = 0 THEN Value(<<0>>)
                   ELSE Subscript(gf, Value(<<gf_mul(gf, x, y)>>)))

\* reedsolo.gf_div(x, y)
FieldGfDiv(x, y) ==
    /\ gfinit.mod # "reedsolo6"
    /\ FieldCalled("reedsolo.gf_div", x, y,
                   IF x = 0 \/ y = 0
                   THEN LET r == gf_div(gf, x, y)
                        IN  IF r.exc = "none" THEN Value(<<r.val>>) ELSE r
                   ELSE Subscript(gf, Value(<<gf_div(gf, x, y).val>>)))

\* reedsolo6.gf_multiply(x, y)
FieldGfMultiply(x, y) ==
    /\ gfinit.mod # "reedsolo"
    /\ FieldCalled("reedsolo6.gf_multiply", x, y, Value(<<gf_multiply(gf6, x, y)>>))

\* reedsolo.rs_generator_poly(nsym)
FieldGeneratorPoly(nsym) ==
    /\ gfinit.mod # "reedsolo6"
    /\ FieldCalled("reedsolo.rs_generator_poly", nsym, 0,
                   IF nsym = 0 THEN Value(<<1>>)
                   ELSE Subscript(gf, Value(rs_generator_poly(gf, nsym))))

\* reedsolo6.rs_generator_poly(nsym, generator)
FieldGeneratorPoly6(nsym, generator) ==
    /\ gfinit.mod # "reedsolo"
    /\ FieldCalled("reedsolo6.rs_generator_poly", nsym, generator,
                   reedsolo6_rs_generator_poly(nsym, generator))

\* the numbers of parity symbols asked for
FieldNsyms == {0, 1, 2, NSYM, NSYM6}

\* the tables are built, then one function is called
FieldNext ==
    \/ gfinit = NoFieldInit /\ gfcall = NoFieldCall
          /\ \E f \in Fields : \E generator \in Generators :
                 FieldInitGf(f[1], generator, f[2])
    \/ gfinit = NoFieldInit /\ gfcall = NoFieldCall
          /\ \E f \in Fields : \E generator \in Generators :
                 FieldInitTables(f[1], generator, f[2])
    \/ gfcall = NoFieldCall
          /\ \E x \in Elements(gf) : \E y \in Operands(gf) : FieldGfMul(x, y)
    \/ gfcall = NoFieldCall
          /\ \E x \in Elements(gf) : \E y \in Operands(gf) : FieldGfDiv(x, y)
    \/ gfcall = NoFieldCall
          /\ \E x \in Elements(gf6) : \E y \in Operands(gf6) : FieldGfMultiply(x, y)
    \/ gfcall = NoFieldCall
          /\ \E nsym \in FieldNsyms : FieldGeneratorPoly(nsym)
    \/ gfcall = NoFieldCall
          /\ \E nsym \in FieldNsyms : \E generator \in Generators :
                 FieldGeneratorPoly6(nsym, generator)

SpecGF == Init /\ [][FieldNext]_vars

----------------------------------------------------------------------------
(* The specifications of the BCH module *)

\* the inputs of the BCH actions
ReceiveUpTo2 ==
    \E c \in ConfigSet : \E q \in Msgs(c) : \E e \in Errors2(c[2]) : Receive(c, q, e)
Receive3 ==
    \E c \in ConfigSet : \E q \in Msgs(c) : \E e \in Errors3(c[2]) : Receive(c, q, e)
MkSynAny ==
    \E poly \in 1..MaxPoly : \E bits \in 1..MaxBits :
        \E synbits \in 0..MaxSynbits : \E errors \in 0..3 :
            MkSyn(poly, bits, synbits, errors)

\* repair after at most two bit errors
BchNext == ReceiveUpTo2 \/ Repair \/ Return
SpecBCH == Init /\ [][BchNext]_vars

\* repair after three bit errors
Bch3Next == Receive3 \/ Repair \/ Return
SpecBCH3 == Init /\ [][Bch3Next]_vars

\* repair of any word under any small generator
RepairPolys == (1..MaxPoly) \cup {29}
ReceiveAny ==
    \E poly \in RepairPolys : \E n \in 1..MaxWord : \E b \in [1..n -> {0, 1}] :
        ReceiveWord(poly, b)
RepairNext == ReceiveAny \/ Repair \/ Return
SpecRepair == Init /\ [][RepairNext]_vars

\* table construction with arbitrary parameters
MkSynNext == MkSynAny
SpecMkSyn == Init /\ [][MkSynNext]_vars

\* the array helpers of bitsparser on arrays drawn at the start
BitsStart ==
    /\ BchInit /\ RsInit /\ build = BuildDone /\ BitsInit /\ ParseIdle /\ FieldIdle
    /\ FecImport /\ HelpIdle

\* the parser of bitsparser on files drawn at the start
ParseStart ==
    /\ BchInit /\ RsInit /\ build = BuildDone /\ BitsIdle /\ ParseInit /\ FieldIdle
    /\ FecImport /\ HelpIdle
SpecParse == ParseStart /\ [][ParseNext]_vars

SpecBits == BitsStart /\ [][BitsNext]_vars

\* the import of bch: init() step by step
ImportNext == InitCall \/ InitSingle \/ InitPair
ImportStart ==
    /\ ImportBch /\ RsInit /\ BitsIdle /\ ParseIdle /\ FieldIdle /\ FecImport /\ HelpIdle
SpecImport == ImportStart /\ [][ImportNext]_vars

\* the encoder of fec after import
SpecFec == Init /\ [][FecNext]_vars

\* the functions without state, each on its arguments
SpecPuncture == Init /\ [][PunctureNext]_vars
SpecDivide == Init /\ [][DivideNext]_vars
SpecPolyAdd == Init /\ [][PolyAddNext]_vars

\* the tables of reedsolo6 after reedsolo6.init_tables(PRIM, GENERATOR, C_EXP)
\* with the parameters of rs6.py
Tables6 == init_tables(PRIM6, GENERATOR6, C_EXP6).val

\* the state after initialization: bch imported, the tables of reedsolo built
\* for the field of rs.py and those of reedsolo6 for the field of rs6.py
SharedStart ==
    /\ BchInit /\ ExtInit
    /\ gf = DefaultTables
    /\ gf6 = Tables6
    /\ codec = -1
    /\ codec6 = <<-1, 0>>
    /\ imported = [rs |-> "", rs6 |-> ""]
    /\ setups = 0
    /\ arg = NoData
    /\ frame = NoData
    /\ clean = <<>>
    /\ out = NoOut

\* the core operations on initialised tables: construction of a codec,
\* encode, decode, check, fix, field arithmetic and BCH repair
SharedNext ==
    \/ Idle /\ \E nsym \in 0..MaxNsym : NewCodec(nsym)
    \/ Idle /\ \E nsym \in 0..MaxNsym : NewCodec6(nsym, PRIM, 2)
    \/ RsCalls
    \/ RsWrappers
    \/ RsReturn
    \/ gfcall = NoFieldCall /\ Idle /\ codec = -1 /\ codec6[1] = -1 /\ FieldGfMul(2, 3)
    \/ gfcall = NoFieldCall /\ Idle /\ codec = -1 /\ codec6[1] = -1
          /\ FieldGfMultiply(2, 3)
    \/ Idle /\ \E poly \in {29} : \E b \in [1..MaxWord -> {0, 1}] : ReceiveWord(poly, b)
    \/ Repair
    \/ Return
SpecShared == SharedStart /\ [][SharedNext]_vars

----------------------------------------------------------------------------
(* Claims on the BCH decoder *)

\* number of positions in which two bit-strings of equal length differ
Distance(a, b) == Cardinality({i \in 1..Len(a) : a[i] # b[i]})

\* a bit-string with zero syndrome under poly
IsCodeword(poly, b) == nndivide(poly, int2(b)) = 0

\* C1: for each of the six configurations and every valid codeword c, repair
\* returns (0, c) on c and (1, c) on c with any one bit flipped.
C1_RepairNoneOrOne ==
    (res # NoRes /\ Cardinality(flips) <= 1) => res = <<Cardinality(flips), cw>>

\* C1 witness: the top bit of a 31-bit codeword was flipped and repaired
C1_Witness ==
    /\ cfg = Configs[6]
    /\ flips = {30}
    /\ word # cw
    /\ res = <<1, cw>>

\* C2: for the configurations with maxErrors >= 2, repair returns (2, c) on a
\* valid codeword c with any two distinct bits flipped.
C2_RepairTwo ==
    (res # NoRes /\ Cardinality(flips) = 2 /\ cfg[4] >= 2) => res = <<2, cw>>

\* C2 witness: the first and the last bit of a 31-bit codeword were flipped
C2_Witness ==
    /\ cfg = Configs[4]
    /\ flips = {0, 30}
    /\ Distance(word, cw) = 2
    /\ res = <<2, cw>>

\* C3 as stated: for every configuration, repair returns (-1, input word) on
\* a valid codeword with three bits flipped.
C3_ThreeErrorsSentinel ==
    (res # NoRes /\ Cardinality(flips) = 3) => res = <<-1, word>>

\* C3 amended: for poly 3545 (31 bits, minimum distance 6), repair returns
\* (-1, input word) on a valid codeword with three bits flipped; for the other
\* five configurations it returns either that sentinel or (n, c') with c' a
\* valid codeword other than the one sent, at distance n <= 2 of the input.
C3_ThreeErrorsAmended ==
    (res # NoRes /\ Cardinality(flips) = 3) =>
        IF cfg[1] = 3545
        THEN res = <<-1, word>>
        ELSE \/ res = <<-1, word>>
             \/ /\ res[1] \in {0, 1, 2}
                /\ res[2] # cw
                /\ Len(res[2]) = Len(word)
                /\ IsCodeword(cfg[1], res[2])
                /\ Distance(word, res[2]) = res[1]

\* C3 witness: three bits of a codeword of poly 3545 were flipped and repair
\* gave the sentinel
C3_Witness ==
    /\ cfg[1] = 3545
    /\ Cardinality(flips) = 3
    /\ Distance(word, cw) = 3
    /\ res = <<-1, word>>

\* C9: for every configuration and every error pattern of weight 1 or 2 on a
\* valid codeword, repair returns (n, w') with syndromes[poly][syndrome(w)]
\* equal to (n, w XOR w').
C9_RepairAgreesWithTable ==
    (res # NoRes /\ Cardinality(flips) \in {1, 2}) =>
        syndromes[cfg[1]][nndivide(cfg[1], int2(word))]
            = <<res[1], BitXor(int2(word), int2(res[2]))>>

\* the error patterns mk_syn enumerates for a length and an error count, each
\* with its weight, its value and its place in the order of enumeration:
\* the single bits by rising n1, then the pairs by rising n1 and n2
Patterns(bits, errors) ==
    {[weight |-> 1, val |-> Shl(1, n1), rank |-> n1] : n1 \in 0..(bits - 1)}
    \cup (IF errors >= 2
          THEN {[weight |-> 2, val |-> Shl(1, p[1]) + Shl(1, p[2]),
                 rank |-> bits + p[1] * bits + p[2]] :
                    p \in {q \in (0..(bits - 1)) \X (0..(bits - 1)) : q[1] < q[2]}}
          ELSE {})

\* C10: after mk_syn returns, every pattern of weight 1 (and of weight 2 when
\* errors >= 2) has a non-empty slot at its syndrome, and the slot holds the
\* first pattern, in the order of enumeration, with that syndrome.
C10_FirstEnumeratedWins ==
    (mkargs # <<>> /\ mkexc = "none") =>
        LET a == mkargs[Len(mkargs)]
            tab == syndromes[a[1]]
            pats == Patterns(a[2], a[4])
        IN  \A p \in pats :
                LET r == nndivide(a[1], p.val)
                    same == {g \in pats : nndivide(a[1], g.val) = r}
                    first == CHOOSE f \in same : \A g \in same : f.rank <= g.rank
                IN  /\ tab[r] # None
                    /\ tab[r] = <<first.weight, first.val>>

----------------------------------------------------------------------------
(* Claims on the Reed-Solomon modules *)

\* the calls that encode, decode and repair
EncodeOps == {"reedsolo.encode", "reedsolo6.encode"}
DecodeOps == {"reedsolo.decode", "reedsolo6.decode"}
FixOps == {"rs.rs_fix", "rs6.rs_fix"}

\* the number of parity symbols of the codec that served the returned call
OutNsym ==
    IF out.op \in {"reedsolo.encode", "reedsolo.decode"} THEN codec
    ELSE IF out.op \in {"reedsolo6.encode", "reedsolo6.decode"} THEN codec6[1]
    ELSE IF out.op = "rs.rs_fix" THEN NSYM
    ELSE NSYM6

\* the positions in which the frame handed to the call differs from the frame sent
FrameErrors == {i \in 1..Len(clean) : frame.val[i] # clean[i]}

\* C4: for both codecs, encode returns len(message) + nsym symbols that begin
\* with the message, the all-zero message gives the all-zero codeword, and
\* decode of a noiseless codeword returns (message, parity).
C4_EncodeDecodeNoiseless ==
    /\ (out.op \in EncodeOps /\ frame.kind = "bytearray" /\ OutNsym >= 1) =>
           /\ out.exc = "none"
           /\ Len(out.msg) = Len(frame.val) + OutNsym
           /\ PyPrefix(out.msg, Len(frame.val)) = frame.val
           /\ (frame.val = Zeros(Len(frame.val)) => out.msg = Zeros(Len(out.msg)))
    /\ (out.op \in DecodeOps /\ frame.kind = "bytearray" /\ OutNsym >= 1
            /\ FrameErrors = {}) =>
           /\ out.exc = "none"
           /\ out.msg = PyPrefix(clean, Len(clean) - OutNsym)
           /\ out.ecc = PyFrom(clean, Len(clean) - OutNsym)

\* C5: decoding corrects e symbol errors and v erasures when 2e + v <= nsym:
\* the codec's decode with v = 0, rs_fix of rs up to 4 errors, of rs6 up to 5.
C5_CorrectsWithinCapacity ==
    (out.op \in DecodeOps \cup FixOps /\ FrameErrors # {}
        /\ 2 * Cardinality(FrameErrors) <= OutNsym) =>
           /\ out.exc = "none"
           /\ out.msg = PyPrefix(clean, Len(clean) - OutNsym)

\* C6: decode fails closed: when it returns, message + parity is a codeword
\* (zero syndrome); otherwise the failure is a ReedSolomonError.
C6_DecodeFailsClosed ==
    (out.op \in DecodeOps /\ OutNsym >= 1) =>
        \/ out.exc = "ReedSolomonError"
        \/ /\ out.exc = "none"
           /\ out.op = "reedsolo.decode" =>
                  out.msg \o out.ecc = Sent(out.msg, OutNsym, OutNsym)

\* C7: rs_check returns True exactly when the parity of the frame is the
\* parity that re-encoding its message part with NSYM + ELEN symbols gives,
\* and never alters the frame.
C7_CheckIsReencoding ==
    /\ out.op = "rs.rs_check" =>
           /\ arg = frame
           /\ (out.flag = "True") <=>
                  (frame.val = Sent(PyPrefix(frame.val, Len(frame.val) - NSYM),
                                    NSYM + ELEN, NSYM))
    /\ out.op = "rs6.rs_check" =>
           /\ arg = frame
           /\ (out.flag = "True") <=> (FrameErrors = {})

\* C8: rs_fix ends with (True, message, NSYM parity symbols) or with
\* (False, None, None); no decoding failure escapes as an exception.
C8_FixTotalOutcome ==
    out.op \in FixOps =>
        /\ out.exc = "none"
        /\ \/ out.flag = "True" /\ Len(out.ecc) = OutNsym
           \/ out.flag = "False" /\ out.msg = <<>> /\ out.ecc = <<>>

----------------------------------------------------------------------------
(* Claims on the import of bch.py *)

\* the tables that the claim expects: poly, codeword length, maxErrors, size
C11_Expected ==
    << <<29, 7, 1, 16>>, <<465, 14, 2, 256>>, <<41, 26, 1, 32>>,
       <<1897, 31, 2, 1024>>, <<1207, 31, 2, 1024>>, <<3545, 31, 2, 2048>> >>

\* C11: init() never computes a syndrome outside the table it is building
\* (no IndexError), slot 0 of every table stays None, and when init() has
\* returned the registry holds exactly the six tables of polys 29, 465, 41,
\* 1897, 1207, 3545 with sizes 2^4, 2^8, 2^5, 2^10, 2^10, 2^11, each holding
\* every single-bit pattern of its codeword length 7, 14, 26, 31, 31, 31 and
\* patterns of weight up to its maxErrors 1, 2, 1, 2, 2, 2, none longer than
\* the codeword.
C11_InitRegistry ==
    /\ mkexc = "none"
    /\ \A p \in DOMAIN syndromes : syndromes[p][0] = None
    /\ build.phase \in {"single", "pair"} =>
           build.syn < C11_Expected[build.i][4]
    /\ build.phase = "done" =>
           /\ DOMAIN syndromes = {C11_Expected[k][1] : k \in 1..6}
           /\ \A k \in 1..6 :
                  LET x == C11_Expected[k]
                      tab == syndromes[x[1]]
                      used == {r \in DOMAIN tab : tab[r] # None}
                  IN  /\ DOMAIN tab = 0..(x[4] - 1)
                      /\ \A n \in 0..(x[2] - 1) :
                             tab[nndivide(x[1], Shl(1, n))] = <<1, Shl(1, n)>>
                      /\ {tab[r][1] : r \in used} = 1..x[3]
                      /\ \A r \in used : bit_length(tab[r][2]) <= x[2]

\* C11 witness: init() has returned, the registry is the one the decoder
\* starts with, and the last table holds the pair of the two top bits
C11_Witness ==
    /\ build.phase = "done"
    /\ mkexc = "none"
    /\ syndromes = init
    /\ syndromes[3545][nndivide(3545, Shl(3, 29))] = <<2, Shl(3, 29)>>

----------------------------------------------------------------------------
(* Claims on the array helpers of bitsparser.py *)

\* bit k of x
BitAt(x, k) == (x \div Pow2(k)) % 2

\* C13: the byte bit-reversal table has an entry for every byte 0..255; the
\* entry for b is the byte whose bit k is bit 7-k of b, and looking up the
\* result again gives b back.
C13_ReverseTableInvolution ==
    /\ DOMAIN lookup_table = 0..255
    /\ (bsop # <<>> /\ OnlyCalled("reverse_bits")) =>
           /\ bsret[1].exc = "none"
           /\ LET once == bsret[1].val[1]
              IN  /\ Len(once) = Len(bsin)
                  /\ \A i \in 1..Len(bsin) :
                         /\ once[i] \in 0..255
                         /\ \A k \in 0..7 : BitAt(once[i], k) = BitAt(bsin[i], 7 - k)
           /\ Len(bsop) = 2 =>
                  /\ bsret[2].exc = "none"
                  /\ bsret[2].val[1] = bsin
                  /\ bsarr = bsin

\* C13 witness: 19 (00010011) was reversed to 200 (11001000) and back to 19
C13_Witness ==
    /\ bsin = <<19>>
    /\ Len(bsop) = 2 /\ OnlyCalled("reverse_bits")
    /\ bsret[1].val = << <<200>> >>
    /\ bsarr = <<19>>

\* C14: de_interleave with step s, and de_interleave3 with s = 3, return s
\* sub-streams; sub-stream k holds the input elements at indices k, k+s,
\* k+2s, ... in order, so that every input element is in exactly one
\* sub-stream and re-interleaving gives the input back.
C14_DeInterleavePartition ==
    (bsop # <<>> /\ bsop[1].f \in {"de_interleave", "de_interleave3"}) =>
        LET s == IF bsop[1].f = "de_interleave3" THEN 3 ELSE bsop[1].step
            streams == bsret[1].val
            n == Len(bsin)
        IN  /\ bsret[1].exc = "none"
            /\ Len(streams) = s
            /\ \A k \in 0..(s - 1) :
                   Len(streams[k + 1]) = Cardinality({i \in 0..(n - 1) : i % s = k})
            /\ \A i \in 0..(n - 1) : streams[(i % s) + 1][(i \div s) + 1] = bsin[i + 1]

\* C17: two checksums of the same even-length byte sequence are equal, and
\* the checksum of the sequence with any single bit flipped differs from the
\* checksum of the sequence.
C17_ChecksumDetectsBitFlip ==
    (Len(bsop) = 2 /\ OnlyCalled("checksum_16") /\ Len(bsin) % 2 = 0) =>
        /\ bsret[1].exc = "none" /\ bsret[2].exc = "none"
        /\ bsret[1].val = << <<checksum_16(bsin).val>> >>
        /\ bsret[2].val = << <<checksum_16(bsarr).val>> >>
        /\ IF bsarr = bsin THEN bsret[2].val = bsret[1].val
                           ELSE bsret[2].val # bsret[1].val

\* C17 witness: the words 0xFFFF and 1 sum to 0x10000, which folds to 1; with
\* bit 0 of the third byte flipped the sum is 0xFFFF
C17_Witness ==
    /\ bsin = <<255, 255, 1, 0>>
    /\ bsarr = <<255, 255, 0, 0>>
    /\ Len(bsop) = 2 /\ OnlyCalled("checksum_16")
    /\ bsret[1].val = << <<65534>> >>
    /\ bsret[2].val = << <<0>> >>

----------------------------------------------------------------------------
(* Claims on the parser of bitsparser.py *)

\* the lines of f from which parse_line builds a Message, in order
RECURSIVE Buildable(_)
Buildable(f) ==
    IF f = <<>> THEN <<>>
    ELSE (IF parse_line(f[1]).exc = "none" THEN <<f[1]>> ELSE <<>>) \o Buildable(Tail(f))

\* C12: the bit vector of a parsed record has the length of the raw bit
\* string and holds only 0 and 1; for the bit-swapped direction tag it is the
\* raw bits with the order reversed inside each group of 8 (bit j of group g
\* at index 8g+7-j), for the other tag it is the raw bits unchanged.
C12_SwappedReversesByteGroups ==
    (Len(infile) = 1 /\ parsed.messages # <<>>) =>
        LET raw == bits_of(infile[1].bits)
            m == parsed.messages[1]
        IN  /\ Len(m.bitstream) = Len(raw)
            /\ \A i \in 1..Len(raw) : m.bitstream[i] \in {0, 1}
            /\ IF m.swapped
               THEN \A g \in 0..(Len(raw) \div 8) : \A j \in 0..7 :
                        8 * g + 7 < Len(raw) => m.bitstream[8 * g + 7 - j + 1] = raw[8 * g + j + 1]
               ELSE m.bitstream = raw

\* C15: parse_input raises nothing, returns one Message per line from which
\* a Message can be built, in input order, and reports every other line.
C15_BadRecordIsSkipped ==
    parsed.op = "parse_input" =>
        /\ parsed.exc = "none"
        /\ Len(parsed.messages) = Len(Buildable(infile))
        /\ \A k \in 1..Len(parsed.messages) :
               parsed.messages[k] = parse_line(Buildable(infile)[k]).val
        /\ Len(parsed.messages) + Len(parsed.reported) = Len(infile)
        /\ \A k \in 1..Len(parsed.reported) :
               parse_line(infile[parsed.reported[k]]).exc # "none"

\* C16: every record that parses stores a level that is a number of at least
\* 1e-6 and a level_db that is a finite number, whatever the quality field.
C16_LevelIsFinite ==
    \A k \in 1..Len(parsed.messages) :
        /\ parsed.messages[k].level.kind = "num"
        /\ parsed.messages[k].level.micro >= 1
        /\ parsed.messages[k].level_db.kind = "num"

----------------------------------------------------------------------------
(* Claims on the field arithmetic *)

\* the product of a and b in the field of primitive polynomial prim: the
\* product of the polynomials over GF(2), reduced modulo prim
FieldProduct(prim, a, b) == nndivide(prim, multiply(a, b))

\* a multiplied by itself k times, starting from 1
RECURSIVE FieldPower(_, _, _)
FieldPower(prim, a, k) ==
    IF k = 0 THEN 1 ELSE FieldProduct(prim, FieldPower(prim, a, k - 1), a)

\* the value at x of the polynomial with coefficients p[1..hi], highest first
RECURSIVE PolyEval(_, _, _, _)
PolyEval(prim, p, hi, x) ==
    IF hi = 0 THEN 0
    ELSE BitXor(FieldProduct(prim, PolyEval(prim, p, hi - 1, x), x), p[hi])

\* the tables of the module whose tables were built
BuiltTables == IF gfinit.mod = "reedsolo" THEN gf ELSE gf6

\* C18: building the tables for (prim, generator g, width m) raises nothing
\* and leaves an exponent table of 2*(2^m - 1) entries and a logarithm table
\* of 2^m entries with EXP[0] = 1, EXP[i + 1] = EXP[i] * g in the field,
\* EXP[i + 2^m - 1] = EXP[i] and LOG[EXP[i]] = i for 0 <= i < 2^m - 1, and
\* EXP[LOG[x]] = x for every non-zero x.
C18_FieldTables ==
    (gfinit.mod # "" /\ gfcall = NoFieldCall) =>
        LET g == BuiltTables
            n == Pow2(gfinit.m) - 1
        IN  /\ gfinit.exc = "none"
            /\ DOMAIN g.GF_EXP = 0..(2 * n - 1)
            /\ DOMAIN g.GF_LOG = 0..n
            /\ g.GF_EXP[0] = 1
            /\ \A i \in 0..(n - 2) :
                   g.GF_EXP[i + 1] = FieldProduct(gfinit.prim, g.GF_EXP[i], gfinit.generator)
            /\ \A i \in 0..(n - 1) :
                   /\ g.GF_EXP[i + n] = g.GF_EXP[i]
                   /\ g.GF_LOG[g.GF_EXP[i]] = i
            /\ \A x \in 1..n : g.GF_EXP[g.GF_LOG[x]] = x

\* C19: gf_div(x, 0) raises ZeroDivisionError for every x, 0 included; for
\* y # 0, gf_div(x, y) is the one element q with gf_mul(q, y) = x, and
\* dividing gf_mul(x, y) by y gives x; a product with a factor 0 is 0.
C19_FieldDivision ==
    /\ (gfcall.f = "reedsolo.gf_div" /\ gfcall.y = 0) =>
           gfcall.exc = "ZeroDivisionError"
    /\ (gfcall.f = "reedsolo.gf_div" /\ gfcall.y # 0
           /\ gfinit.mod = "reedsolo" /\ gfinit.exc = "none") =>
           /\ gfcall.exc = "none"
           /\ gfcall.val[1] \in DOMAIN gf.GF_LOG
           /\ \A q \in DOMAIN gf.GF_LOG :
                  (gf_mul(gf, q, gfcall.y) = gfcall.x) <=> (q = gfcall.val[1])
           /\ gf_div(gf, gf_mul(gf, gfcall.x, gfcall.y), gfcall.y) = Value(gfcall.x)
    /\ (gfcall.f \in {"reedsolo.gf_mul", "reedsolo6.gf_multiply"}
           /\ (gfcall.x = 0 \/ gfcall.y = 0)) =>
           /\ gfcall.exc = "none"
           /\ gfcall.val = <<0>>

\* C19 witness: in the 8-bit field, 1 / 2 = 142 (142 * 2 = 284 = 285 xor 1)
C19_Witness ==
    /\ gfinit.mod = "reedsolo" /\ gfinit.prim = PRIM /\ gfinit.exc = "none"
    /\ gfcall.f = "reedsolo.gf_div" /\ gfcall.x = 1 /\ gfcall.y = 2
    /\ gfcall.val = <<142>>
    /\ FieldProduct(PRIM, 142, 2) = 1

\* the tables are those of the 8-bit instance (reedsolo, as rs.py sets it
\* up) or of the 6-bit instance (reedsolo6, as rs6.py sets it up)
Instance8 ==
    gfinit = [mod |-> "reedsolo", prim |-> PRIM, generator |-> GENERATOR,
              m |-> C_EXP, exc |-> "none"]
Instance6 ==
    gfinit = [mod |-> "reedsolo6", prim |-> PRIM6, generator |-> GENERATOR6,
              m |-> C_EXP6, exc |-> "none"]

\* C20: rs_generator_poly(nsym) returns a monic polynomial of degree nsym
\* that is zero at generator^(fcr + i) for i = 0..nsym-1, both in the 8-bit
\* instance (fcr = 0) and in the 6-bit instance (fcr = 54).
C20_GeneratorPolynomial ==
    (\/ Instance8 /\ gfcall.f = "reedsolo.rs_generator_poly"
     \/ Instance6 /\ gfcall.f = "reedsolo6.rs_generator_poly"
                  /\ gfcall.y = GENERATOR6) =>
        LET nsym == gfcall.x
            fcr == IF Instance6 THEN FCR6 ELSE FCR
            generator == gfinit.generator
        IN  /\ gfcall.exc = "none"
            /\ Len(gfcall.val) = nsym + 1
            /\ gfcall.val[1] = 1
            /\ \A i \in 0..(nsym - 1) :
                   PolyEval(gfinit.prim, gfcall.val, nsym + 1,
                            FieldPower(gfinit.prim, generator, fcr + i)) = 0

----------------------------------------------------------------------------
(* Claims on the encoder and the puncturing of fec.py *)

\* the globals of fec after call k of fcalls
GlobalsAfter(k) == IF k < Len(fcalls) THEN fcalls[k + 1].g ELSE FecGlobals

\* the register after the first t of bits were shifted into register r: the
\* last Len(r) elements of r followed by these bits
RegisterAfter(r, bits, t) ==
    LET all == r \o SubSeq(bits, 1, t)
    IN  SubSeq(all, Len(all) - Len(r) + 1, Len(all))

\* the inner product of taps and reg over GF(2)
InnerProduct(taps, reg) ==
    Cardinality({i \in 1..Len(taps) : taps[i] = 1 /\ reg[i] = 1}) % 2

\* C21: fec(bits) returns 2 * len(bits) bits; bits 2t and 2t + 1 of the
\* output are the inner products over GF(2) of p1 and of p2 with the register
\* after input bit t, the register being shifted by one position and the bit
\* inserted at its end, starting from initbb; p1, p2 and initbb are left as
\* they were, and two calls on the same input return the same.
C21_FecEncodes ==
    \A k \in 1..Len(fcalls) :
        fcalls[k].f = "fec" =>
            LET c == fcalls[k]
            IN  /\ c.exc = "none"
                /\ Len(c.val) = 2 * Len(c.a)
                /\ \A t \in 1..Len(c.a) :
                       LET reg == RegisterAfter(c.g.initbb, c.a, t)
                       IN  /\ c.val[2 * t - 1] = InnerProduct(c.g.p1, reg)
                           /\ c.val[2 * t] = InnerProduct(c.g.p2, reg)
                /\ GlobalsAfter(k) = c.g
                /\ \A j \in 1..Len(fcalls) :
                       (fcalls[j].f = "fec" /\ fcalls[j].a = c.a /\ fcalls[j].g = c.g) =>
                           fcalls[j].val = c.val

\* C22: puncture(schedule, bits) returns len(bits) positions; position i is
\* the erased marker "." when schedule[i mod len(schedule)] is false, and
\* otherwise the digit of bit i, so that every kept bit is at its index.
C22_PuncturePreservesPositions ==
    hcall.f = "puncture" =>
        LET dp == hcall.a[1]
            bits == hcall.a[2]
        IN  /\ hcall.exc = "none"
            /\ Len(hcall.val) = Len(bits)
            /\ \A i \in 0..(Len(bits) - 1) :
                   LET kept == dp[(i % Len(dp)) + 1] = 1
                       c == hcall.val[i + 1]
                   IN  /\ c \in {"0", "1", "."}
                       /\ (c = ".") <=> ~kept
                       /\ kept => ((c = "1") <=> (bits[i + 1] = 1))

\* C22 witness: d1a keeps positions 0, 2, 3, 4 and 6 of seven bits
C22_Witness ==
    /\ hcall.f = "puncture"
    /\ hcall.a = <<patterns.d1a, <<1, 1, 0, 1, 0, 0, 1>>>>
    /\ hcall.val = <<"1", ".", "0", "1", "0", ".", "1">>

\* C29: after every sequence of set_poly and set_initbb calls, p1, p2 and
\* initbb have the same length, whether the calls returned or raised
\* ValueError; a call that raised left p1, p2 and initbb as they were.
C29_FecLengthsAgree ==
    /\ Len(p1) = Len(p2)
    /\ Len(p1) = Len(initbb)
    /\ \A k \in 1..Len(fcalls) :
           /\ fcalls[k].exc \in {"none", "ValueError"}
           /\ (fcalls[k].f \in {"set_poly", "set_initbb"} /\ fcalls[k].exc # "none") =>
                  GlobalsAfter(k) = fcalls[k].g

----------------------------------------------------------------------------
(* Claims on the functions without state *)

\* C24: for poly >= 1 and num >= 0, nndivide(poly, num) returns r with fewer
\* bits than poly such that num XOR r is a carry-less multiple of poly
\* (multiply(poly, q) = num XOR r for some q); ndivide and divide return the
\* same r for the codeword written with any number of leading zeros.
C24_DivisionRemainder ==
    hcall.f = "divide" =>
        LET poly == hcall.a[1]
            num == hcall.a[2]
            r == hcall.val[1]
        IN  /\ bit_length(r) < bit_length(poly)
            /\ \E q \in 0..num : multiply(poly, q) = BitXor(num, r)
            /\ hcall.val[2] = r
            /\ hcall.val[3] = r

\* C24 witness: 255 = x^7 + ... + 1 divided by 29 = x^4 + x^3 + x^2 + 1
\* leaves 10 = x^3 + x, the codeword being written with two leading zeros
C24_Witness ==
    /\ hcall.f = "divide"
    /\ hcall.a = <<29, 255, 2>>
    /\ hcall.val = <<10, 10, 10>>

\* the coefficient of x^k of the list p, most significant coefficient first
Coefficient(p, k) == IF k < Len(p) THEN p[Len(p) - k] ELSE 0

\* C25: gf_poly_add(p, q) has max(len(p), len(q)) coefficients, and its
\* coefficient of x^k is the XOR of those of p and q, the lists being read
\* most significant coefficient first (the shorter one aligned at its last
\* element); reedsolo and reedsolo6 return the same list.
C25_PolyAddAlignsRight ==
    hcall.f = "gf_poly_add" =>
        LET p == hcall.a[1]
            q == hcall.a[2]
            length == IF Len(p) > Len(q) THEN Len(p) ELSE Len(q)
        IN  /\ hcall.val[1] = hcall.val[2]
            /\ \A m \in 1..2 :
                   /\ Len(hcall.val[m]) = length
                   /\ \A k \in 0..(length - 1) :
                          Coefficient(hcall.val[m], k)
                              = BitXor(Coefficient(p, k), Coefficient(q, k))

----------------------------------------------------------------------------
(* Claims on repair for any generator and word *)

\* the words with zero syndrome under poly at Hamming distance d of b
CodewordsAt(poly, b, d) ==
    {v \in [1..Len(b) -> {0, 1}] : Distance(v, b) = d /\ IsCodeword(poly, v)}

\* C26: repair(poly, b) returns (n, w) with n in {-1, 0, 1, 2} and
\* len(w) = len(b); if n >= 0, w has zero syndrome, differs from b in exactly
\* n bits, and no word nearer to b has zero syndrome; n = -1 exactly when no
\* word within distance 2 of b has zero syndrome, and then w is b.
C26_RepairPostcondition ==
    res # NoRes =>
        LET n == res[1]
            w == res[2]
            near(d) == CodewordsAt(cfg[1], word, d)
        IN  /\ n \in {-1, 0, 1, 2}
            /\ Len(w) = Len(word)
            /\ n >= 0 => /\ IsCodeword(cfg[1], w)
                         /\ Distance(w, word) = n
                         /\ \A d \in 0..(n - 1) : near(d) = {}
            /\ (n = -1) <=> (\A d \in 0..2 : near(d) = {})
            /\ n = -1 => w = word

\* C26 witness: under 29 (x^4 + x^3 + x^2 + 1) the word 00111 is three bits
\* away from both codewords of five bits, and repair gives it back with -1
C26_Witness ==
    /\ cfg[1] = 29
    /\ word = <<0, 0, 1, 1, 1>>
    /\ res = <<-1, <<0, 0, 1, 1, 1>>>>
    /\ CodewordsAt(29, word, 3) = {<<0, 0, 0, 0, 0>>, <<1, 1, 1, 0, 1>>}

----------------------------------------------------------------------------
(* Claims on the range of checksum_16 *)

\* the end-around carry: the carry out of the low 16 bits is added back in
\* until none remains
RECURSIVE EndAroundFold(_)
EndAroundFold(s) ==
    IF s < 65536 THEN s ELSE EndAroundFold((s % 65536) + (s \div 65536))

\* C27: for every sequence of 16-bit words checksum_16 returns a value in
\* 0..0xFFFF, the complement within 16 bits of the sum of the words with the
\* end-around carry applied until no carry remains.
C27_Checksum16Bits ==
    (Len(bsop) >= 1 /\ OnlyCalled("checksum_16") /\ Len(bsin) % 2 = 0) =>
        LET words == view_uint16(bsin)
            csum == np_sum(words, 1, Len(words))
        IN  /\ bsret[1].exc = "none"
            /\ bsret[1].val[1][1] \in 0..65535
            /\ bsret[1].val[1][1] = 65535 - EndAroundFold(csum)

----------------------------------------------------------------------------
(* Claims on the failure of the decoder and on the frame of rs_fix *)

\* C28: when the root search finds a number of positions other than the
\* degree of the error locator, as for a frame with more symbol errors than
\* nsym / 2 that is no codeword, decoding fails with the locator-not-found
\* ReedSolomonError and returns no message and no parity; a decode that
\* returns gives a codeword.
C28_LocatorNotFound ==
    (out.op \in DecodeOps /\ OutNsym >= 1 /\ 2 * Cardinality(FrameErrors) > OutNsym) =>
        \/ /\ out.exc = "ReedSolomonError"
           /\ out.msg = <<>> /\ out.ecc = <<>>
        \/ /\ out.exc = "none"
           /\ out.msg \o out.ecc # frame.val
           /\ out.op = "reedsolo.decode" =>
                  out.msg \o out.ecc = Sent(out.msg, OutNsym, OutNsym)

\* C30: rs_fix of rs and of rs6 leaves the caller's frame as it was, the same
\* length and the same symbols, whether it returns True, returns False or
\* raises.
C30_FixLeavesFrame ==
    out.op \in FixOps => arg = frame

----------------------------------------------------------------------------
(* Claims on the shared tables *)

\* C23: after initialization no core operation, the construction of a codec
\* included, changes the BCH syndrome registry or the field tables GF_EXP,
\* GF_LOG and FIELD_SIZE of reedsolo and reedsolo6.
C23_TablesKeepValues ==
    /\ syndromes = init
    /\ gf = DefaultTables
    /\ gf6 = Tables6

====
